---- MODULE Spec2Model ----
(***************************************************************************)
(* State-machine model of the wireless-display server: the signaling       *)
(* handler sdp_handler with its terminal-state observer                    *)
(* (src/server/route.rs), the shared AppState (src/server/mod.rs) and the  *)
(* capture/encode and send workers of capture_screen and the sampler and   *)
(* sender of capture_mouse (src/server/capture.rs); and of the client's    *)
(* depacketizer process_video_track (src/client/connect.rs).               *)
(*                                                                         *)
(* Every `.await` of the source is a scheduling point, so every statement  *)
(* that touches AppState is an action of its own.  A tokio Mutex guard     *)
(* taken in a statement such as `*state.x.lock().await = v` lives only for *)
(* that statement, so such a statement is one atomic step; the one guard   *)
(* that lives across an await is the video_track guard of the send worker. *)
(***************************************************************************)
EXTENDS Integers, Sequences, FiniteSets, TLC

\* ----------------------------------------------------------------- bounds
\* Number of offers (invocations of sdp_handler) in a run.
MaxOffers == 2
\* Number of terminal states one peer transport reports in a run.
MaxReports == 2

\* Number of offers in a run of the specification with the capture workers.
MaxCaptureOffers == 1
\* Number of raw frames the capture input delivers in a run.
MaxFrames == 3

\* Number of timer ticks the mouse sampler sees in a bounded run.
MaxTicks == 3
\* Number of RTP packets the inbound track delivers in a run.
MaxFragments == 3
\* Number of messages the client receives on its control channel in a run.
MaxMessages == 3
\* Number of candidates the client's transport gathers for its offer.
MaxCandidates == 3

Offers == 1..MaxOffers
CaptureOffers == 1..MaxCaptureOffers

\* Capacity of the sample queue: mpsc::channel::<Sample>(2)
SampleQueueCapacity == 2

\* Capacity of the cursor queue: mpsc::channel::<MousePosition>(64)
MouseQueueCapacity == 64

\* Capacity of the access-unit queue: mpsc::channel::<WebRTCPacket>(2)
PacketQueueCapacity == 2

\* Capacity of the frame queue: mpsc::channel::<StreamFrame>(2)
FrameQueueCapacity == 2

\* ------------------------------------------------------ values of the code
\* Option<T>: None is the empty sequence, Some(x) the one-element sequence.
None == << >>
Some(x) == << x >>
IsSome(o) == o # None

\* Option<String>::unwrap_or_default (route.rs:63): None becomes "".
UnwrapOrDefault(o) == IF o = None THEN "" ELSE o[1]

\* enum ConnectionState (mod.rs:18-23)
ConnectionState == {"Disconnected", "Connecting", "Connected"}

\* RTCPeerConnectionState values the observer treats as terminal
\* (route.rs:114-116)
TerminalStates == {"Disconnected", "Closed", "Failed"}

\* Values of the password option used for the server and for the offers.
Passwords == {None, Some(""), Some("a")}

\* Kinds of the sdp field of a request, by the first call that fails on it:
\*   "offer"       a well-formed offer
\*   "undecodable" base64 or JSON decoding fails (route.rs:79-80)
\*   "bad_remote"  set_remote_description returns Err (route.rs:128)
\*   "bad_answer"  create_answer or set_local_description returns Err
\*                 (route.rs:129-131)
SdpKinds == {"offer", "undecodable", "bad_remote", "bad_answer"}

VARIABLES
    password,           \* AppState.password (mod.rs:28), fixed at construction
    connection,         \* AppState.connection (mod.rs:29)
    peer_connection,    \* AppState.peer_connection: None or Some(transport id)
    video_track,        \* AppState.video_track: None or Some(track id)
    hpc,                \* position of each sdp_handler invocation
    sdp_data,           \* the request of each invocation
    result,             \* outcome of each invocation
    response,           \* the description put in the success response
    pc_state,           \* per transport: "none" (not created), "new", or the
                        \* last terminal state it reported
    observer,           \* per transport: state-change handler registered
    gathering,          \* per transport: "new", "gathering", "complete"
    local_description,  \* per transport: "none", "partial", "full"
    reports,            \* per transport: number of terminal reports made
    cb_pending,         \* per transport: terminal reports whose callback has
                        \* not started yet
    cb_pc,              \* per transport: position of the running callback
    callbacks_run,      \* per transport: number of callbacks completed
    events,             \* per invocation: its signaling events, in order
    video_track_lock,   \* holder of the video_track mutex across steps:
                        \* "free" or "send_task"
    queue,              \* samples in the mpsc channel of capture_screen
    frame_count,        \* frame_count of the encode worker
    enc_pc,             \* position of the encode worker (capture_task)
    enc_session,        \* the video_track value the encode worker saw for
                        \* the packet in hand
    send_pc,            \* position of the send worker (send_task)
    send_sample,        \* the sample the send worker holds
    shutdown_signal,    \* the AtomicBool shared by the two workers
    pts,                \* the presentation timestamp set on the last raw
                        \* frame (capture.rs:233-235)
    enqueued,           \* the samples try_send put into the channel, in
                        \* order
    dequeued,           \* the samples the send worker received, in order
    written,            \* the samples handed to write_sample, in order,
                        \* each with the track it was written to
    framerate,          \* AppState.framerate (mod.rs:27)
    main_pc,            \* position of run_cli_server (mod.rs:109-127)
    shutdown_timer,     \* the timeout of mod.rs:121-125
    cs_pc,              \* position of capture_screen (capture.rs:269-281)
    cm_pc,              \* position of capture_mouse (capture.rs:367-379)
    pair_pc,            \* position of start_pairing_service
    device,             \* AppState.device (mod.rs:26): width, height, x, y
    pointer,            \* the pointer position of the platform
    ticks_left,         \* ticks the 16 ms interval still delivers
                        \* (Unlimited: no bound)
    mouse_queue,        \* positions in the mpsc channel of capture_mouse
    ms_pc,              \* position of the mouse sampler (capture_task)
    ms_raw,             \* the raw position the sampler read last
    current_position,   \* the position the sampler computed last
    ms_last,            \* the outcome of the sampler's last try_send
    msend_pc,           \* position of the cursor send worker (send_task)
    msend_position,     \* the position the cursor send worker holds
    mouse_channel,      \* AppState.mouse_channel (mod.rs:32)
    data_channel,       \* per transport: state of the "mouse" data channel
                        \* its client created (client/connect.rs:60)
    sent,               \* the messages sent with send_text, in order
    mouse_shutdown_signal,  \* the AtomicBool of capture_mouse
    dpc,                \* position of process_video_track
    frame_buf,          \* frame_buf of process_video_track
    raw_packet,         \* the access unit process_video_track is sending
    packet_queue,       \* access units in the channel of start_webrtc
    fragments,          \* the RTP packets read from the track, in order
    emitted,            \* the access units handed to packet_tx.send, in
                        \* order
    flushed,            \* how many RTP packets were read at the last flush
    vp_pc,              \* position of run_video_processor
    stream_frame,       \* the frame run_video_processor is sending
    frame_queue,        \* frames in the channel of client/mod.rs:28
    frame_rx_open,      \* the display consumer still holds frame_rx
    mouse_position,     \* the shared last-known cursor position
                        \* (client/connect.rs:30)
    messages,           \* the control-channel messages received, in order
    apply_tasks,        \* the tasks spawned by on_message and not yet run,
                        \* each named by the index of its message
    target_os,          \* the platform the server was built for
    acceleration,       \* the acceleration flag of capture_screen
    encoders,           \* the names of the encoders the server's ffmpeg has
    encoder_codec,      \* the encoder capture_task selected
    client_os,          \* the platform the client was built for
    hwaccel,            \* the hwaccel flag of start_webrtc
    decoders,           \* the names of the decoders the client's ffmpeg has
    decoder_codec,      \* the decoder setup_video_decoder selected
    webrtc_pc,          \* position of start_webrtc
    webrtc_password,    \* the password given to start_webrtc
    ice_gathering,      \* the client transport's gathering state
    candidates,         \* the candidates the client transport has gathered
    sdp,                \* the encoded offer (client/connect.rs:90)
    posted              \* the request body sent to the server

sessionVars == << connection, peer_connection, video_track >>
handlerVars == << hpc, sdp_data, result, response, events >>
transportVars == << pc_state, observer, gathering, local_description, reports,
                    cb_pending, cb_pc, callbacks_run >>
encodeVars == << frame_count, enc_pc, enc_session, pts >>
sendVars == << send_pc, send_sample >>
sampleLogs == << enqueued, dequeued, written >>
lifecycleVars == << main_pc, shutdown_timer, cs_pc, cm_pc, pair_pc >>
captureVars == << video_track_lock, queue, encodeVars, sendVars,
                 shutdown_signal, sampleLogs >>
mouseVars == << device, pointer, ticks_left, mouse_queue, ms_pc, ms_raw,
                current_position, ms_last, msend_pc, msend_position,
                mouse_channel, data_channel, sent, mouse_shutdown_signal >>
depacketizerVars == << dpc, frame_buf, raw_packet, fragments, emitted,
                       flushed >>
displayVars == << stream_frame, frame_queue, frame_rx_open >>
cursorVars == << mouse_position, messages, apply_tasks >>
clientVars == << depacketizerVars, packet_queue, vp_pc, displayVars,
                 cursorVars >>
codecVars == << target_os, acceleration, encoders, encoder_codec, client_os,
               hwaccel, decoders, decoder_codec >>
offerVars == << webrtc_pc, webrtc_password, ice_gathering, candidates, sdp,
               posted >>
vars == << password, framerate, lifecycleVars, sessionVars, handlerVars,
           transportVars, captureVars, mouseVars, clientVars, codecVars,
           offerVars >>

\* ------------------------------------------------------------------- Init
\* AppState::new (mod.rs:36-46): Disconnected, no handles.
AppStateNew ==
    /\ connection = "Disconnected"
    /\ peer_connection = None
    /\ video_track = None

\* The frame rate of the command line's default (main.rs:28).
DefaultFramerate == 60

\* run_cli_server serving, with its three tasks started (mod.rs:89-116).
InitLifecycle ==
    /\ main_pc = "serving"
    /\ shutdown_timer = "idle"
    /\ cs_pc = "select"
    /\ cm_pc = "select"
    /\ pair_pc = "setup"

\* The signaling handlers, the transports and the capture workers before
\* the first request (mod.rs:82-92).
InitServer ==
    /\ AppStateNew
    /\ hpc = [h \in Offers |-> "idle"]
    /\ sdp_data = [h \in Offers |-> [sdp |-> "offer", password |-> None]]
    /\ result = [h \in Offers |-> "none"]
    /\ response = [h \in Offers |-> "none"]
    /\ events = [h \in Offers |-> << >>]
    /\ pc_state = [h \in Offers |-> "none"]
    /\ observer = [h \in Offers |-> FALSE]
    /\ gathering = [h \in Offers |-> "new"]
    /\ local_description = [h \in Offers |-> "none"]
    /\ reports = [h \in Offers |-> 0]
    /\ cb_pending = [h \in Offers |-> 0]
    /\ cb_pc = [h \in Offers |-> "idle"]
    /\ callbacks_run = [h \in Offers |-> 0]
    /\ video_track_lock = "free"
    /\ queue = << >>
    /\ frame_count = 0
    /\ enc_pc = "capture"
    /\ enc_session = None
    /\ send_pc = "loop"
    /\ send_sample = None
    /\ shutdown_signal = FALSE
    /\ pts = None
    /\ enqueued = << >>
    /\ dequeued = << >>
    /\ written = << >>
    /\ InitLifecycle

\* capture_mouse before its first tick (capture.rs:288-292, mod.rs:44), with
\* `ticks` ticks to come, and no data channel on any transport.
InitMouseWorkers(ticks) ==
    /\ ticks_left = ticks
    /\ mouse_queue = << >>
    /\ ms_pc = "loop"
    /\ ms_raw = None
    /\ current_position = None
    /\ ms_last = "none"
    /\ msend_pc = "loop"
    /\ msend_position = None
    /\ mouse_channel = None
    /\ data_channel = [h \in Offers |-> "none"]
    /\ sent = << >>
    /\ mouse_shutdown_signal = FALSE

\* process_video_track at its start (client/connect.rs:126-128), with the
\* empty channels of client/connect.rs:29 and client/mod.rs:28 and the empty
\* cursor cell of client/connect.rs:30.
InitClient ==
    /\ dpc = "read"
    /\ frame_buf = << >>
    /\ raw_packet = None
    /\ packet_queue = << >>
    /\ fragments = << >>
    /\ emitted = << >>
    /\ flushed = 0
    /\ vp_pc = "recv"
    /\ stream_frame = None
    /\ frame_queue = << >>
    /\ frame_rx_open = TRUE
    /\ mouse_position = None
    /\ messages = << >>
    /\ apply_tasks = {}

\* A server and a client built for Linux and started without acceleration,
\* whose ffmpeg has the software codecs only and which have selected them
\* (capture.rs:143-149, client/connect.rs:196-197).
SoftwareCodecs ==
    /\ target_os = "linux"
    /\ acceleration = FALSE
    /\ encoders = {"libx264"}
    /\ encoder_codec = "libx264"
    /\ client_os = "linux"
    /\ hwaccel = FALSE
    /\ decoders = {"h264"}
    /\ decoder_codec = "h264"

\* start_webrtc before it creates its offer (client/connect.rs:84), called
\* with the password pw.
InitWebrtc(pw) ==
    /\ webrtc_pc = "create_offer"
    /\ webrtc_password = pw
    /\ ice_gathering = "new"
    /\ candidates = 0
    /\ sdp = None
    /\ posted = None

InitSetup ==
    /\ SoftwareCodecs
    /\ InitWebrtc(None)

\* The device of the examples and a pointer at its centre.
DefaultDevice == [width |-> 1920, height |-> 1080, x |-> 0, y |-> 0]
DefaultPointer == [x |-> 960, y |-> 540]

\* Where the pointer is found at the next tick, given where it was read
\* last: a pointer read at the centre has moved to the far corner of the
\* device by the next reading; any other pointer rests.
MovedPointer == [x |-> 1920, y |-> 1080]
PointerMoves(p, last) ==
    IF p = DefaultPointer /\ last = Some(DefaultPointer)
       THEN {MovedPointer}
       ELSE {p}

Init ==
    /\ password \in Passwords
    /\ framerate = DefaultFramerate
    /\ InitServer
    /\ device = DefaultDevice
    /\ pointer = DefaultPointer
    /\ InitMouseWorkers(MaxTicks)
    /\ InitClient
    /\ InitSetup

\* ------------------------------------------------------------ sdp_handler
\* Mutant of PasswordRejected: an empty offered password is taken for "no
\* password given" and is not compared.
PasswordRejectedSkipEmpty(configured, offered) ==
    /\ IsSome(configured)
    /\ UnwrapOrDefault(offered) # ""
    /\ configured[1] # UnwrapOrDefault(offered)

\* route.rs:62-63: the offer is refused when a password is configured and
\* differs from the offered one, an absent offered password counting as "".
PasswordRejected(configured, offered) ==
    /\ IsSome(configured)
    /\ configured[1] # UnwrapOrDefault(offered)

\* The request value once its fields have been moved out or dropped.
Moved == [sdp |-> "moved", password |-> None]

\* An invocation ends: with a rejection, a panic of an unwrap, or a reply.
\* Its locals, the request among them, are dropped.
Finish(h, r) ==
    /\ hpc' = [hpc EXCEPT ![h] = "done"]
    /\ result' = [result EXCEPT ![h] = r]
    /\ sdp_data' = [sdp_data EXCEPT ![h] = Moved]

Goto(h, p) ==
    /\ hpc' = [hpc EXCEPT ![h] = p]
    /\ UNCHANGED << result, sdp_data >>

Log(h, e) == events' = [events EXCEPT ![h] = Append(@, e)]

\* route.rs:57-60: a request arrives (warp calls sdp_handler with its body).
\* Requests are numbered in their order of arrival.
Receive(h) ==
    /\ hpc[h] = "idle"
    /\ \A g \in Offers : g < h => hpc[g] # "idle"
    /\ \E kind \in SdpKinds, pw \in Passwords :
        sdp_data' = [sdp_data EXCEPT ![h] = [sdp |-> kind, password |-> pw]]
    /\ hpc' = [hpc EXCEPT ![h] = "verify"]
    /\ UNCHANGED << codecVars, offerVars, framerate, lifecycleVars, mouseVars,
                    clientVars, captureVars, password, sessionVars, result,
                    response, events, transportVars >>

\* Mutant of VerifyPassword: the connection state is looked at first, so a
\* busy server answers "busy" whatever the password is.
VerifyPasswordWhenFree(h) ==
    /\ hpc[h] = "verify"
    /\ IF connection # "Disconnected"
          THEN Finish(h, "Busy")
          ELSE IF PasswordRejected(password, sdp_data[h].password)
                  THEN Finish(h, "InvalidPassword")
                  ELSE /\ hpc' = [hpc EXCEPT ![h] = "check"]
                       /\ sdp_data' = [sdp_data EXCEPT ![h].password = None]
                       /\ UNCHANGED result
    /\ UNCHANGED << codecVars, offerVars, framerate, lifecycleVars, mouseVars,
                    clientVars, captureVars, password, sessionVars, response,
                    events, transportVars >>

\* route.rs:61-69: verify the password if one is set.
VerifyPassword(h) ==
    /\ hpc[h] = "verify"
    /\ IF PasswordRejected(password, sdp_data[h].password)
          THEN Finish(h, "InvalidPassword")
          ELSE /\ hpc' = [hpc EXCEPT ![h] = "check"]
               /\ sdp_data' = [sdp_data EXCEPT ![h].password = None]
               /\ UNCHANGED result
    /\ UNCHANGED << codecVars, offerVars, framerate, lifecycleVars, mouseVars,
                    clientVars, captureVars, password, sessionVars, response,
                    events, transportVars >>

\* Mutant of CheckConnection: only an established connection is busy
\* (`== Connected` in place of `!= Disconnected`).
CheckConnectionOnlyConnected(h) ==
    /\ hpc[h] = "check"
    /\ IF connection = "Connected"
          THEN Finish(h, "Busy")
          ELSE Goto(h, "decode")
    /\ UNCHANGED << codecVars, offerVars, framerate, lifecycleVars, mouseVars,
                    clientVars, captureVars, password, sessionVars, response,
                    events, transportVars >>

\* route.rs:71-77: reject unless the connection state is Disconnected.
CheckConnection(h) ==
    /\ hpc[h] = "check"
    /\ IF connection # "Disconnected"
          THEN Finish(h, "Busy")
          ELSE Goto(h, "decode")
    /\ UNCHANGED << codecVars, offerVars, framerate, lifecycleVars, mouseVars,
                    clientVars, captureVars, password, sessionVars, response,
                    events, transportVars >>

\* route.rs:79-80: decode the offer; both steps unwrap.
DecodeOffer(h) ==
    /\ hpc[h] = "decode"
    /\ IF sdp_data[h].sdp = "undecodable"
          THEN Finish(h, "Panic")
          ELSE Goto(h, "create")
    /\ UNCHANGED << codecVars, offerVars, framerate, lifecycleVars, mouseVars,
                    clientVars, captureVars, password, sessionVars, response,
                    events, transportVars >>

\* route.rs:82-84: create the peer transport and store its handle.
CreatePeerConnection(h) ==
    /\ hpc[h] = "create"
    /\ pc_state' = [pc_state EXCEPT ![h] = "new"]
    /\ peer_connection' = Some(h)
    /\ Goto(h, "track")
    /\ UNCHANGED << codecVars, offerVars, framerate, lifecycleVars, mouseVars,
                    clientVars, captureVars, password, connection,
                    video_track, response, events, observer, gathering,
                    local_description, reports, cb_pending, cb_pc,
                    callbacks_run >>

\* route.rs:86-95: create the local video track and store its handle.
CreateVideoTrack(h) ==
    /\ hpc[h] = "track"
    /\ video_track_lock = "free"
    /\ video_track' = Some(h)
    /\ Goto(h, "observer")
    /\ UNCHANGED << codecVars, offerVars, framerate, lifecycleVars, mouseVars,
                    clientVars, captureVars, password, connection,
                    peer_connection, response, events, transportVars >>

\* route.rs:97-123: add the track, spawn the RTCP reader and register the
\* state-change handler on the transport.
RegisterObserver(h) ==
    /\ hpc[h] = "observer"
    /\ observer' = [observer EXCEPT ![h] = TRUE]
    /\ Goto(h, "connecting")
    /\ UNCHANGED << codecVars, offerVars, framerate, lifecycleVars, mouseVars,
                    clientVars, captureVars, password, sessionVars, response,
                    events, pc_state, gathering, local_description, reports,
                    cb_pending, cb_pc, callbacks_run >>

\* route.rs:125
SetConnecting(h) ==
    /\ hpc[h] = "connecting"
    /\ connection' = "Connecting"
    /\ Goto(h, "remote")
    /\ UNCHANGED << codecVars, offerVars, framerate, lifecycleVars, mouseVars,
                    clientVars, captureVars, password, peer_connection,
                    video_track, response, events, transportVars >>

\* route.rs:128: set_remote_description(offer).await.unwrap()
SetRemoteDescription(h) ==
    /\ hpc[h] = "remote"
    /\ IF sdp_data[h].sdp = "bad_remote"
          THEN Finish(h, "Panic") /\ UNCHANGED events
          ELSE Goto(h, "answer") /\ Log(h, "set_remote_description")
    /\ UNCHANGED << codecVars, offerVars, framerate, lifecycleVars, mouseVars,
                    clientVars, captureVars, password, sessionVars, response,
                    transportVars >>

\* route.rs:129-130: create_answer(None).await.unwrap(), then take the
\* gathering-complete promise.
CreateAnswer(h) ==
    /\ hpc[h] = "answer"
    /\ IF sdp_data[h].sdp = "bad_answer"
          THEN Finish(h, "Panic") /\ UNCHANGED events
          ELSE /\ hpc' = [hpc EXCEPT ![h] = "local"]
               /\ sdp_data' = [sdp_data EXCEPT ![h] = Moved]
               /\ UNCHANGED result
               /\ Log(h, "create_answer")
    /\ UNCHANGED << codecVars, offerVars, framerate, lifecycleVars, mouseVars,
                    clientVars, captureVars, password, sessionVars, response,
                    transportVars >>

\* route.rs:131: set_local_description(answer): the transport holds a local
\* description without candidates yet and starts gathering them; its ICE
\* agent starts, so from here on it may report state changes.
SetLocalDescription(h) ==
    /\ hpc[h] = "local"
    /\ local_description' = [local_description EXCEPT ![h] = "partial"]
    /\ gathering' = [gathering EXCEPT ![h] = "gathering"]
    /\ Goto(h, "gather")
    /\ Log(h, "set_local_description")
    /\ UNCHANGED << codecVars, offerVars, framerate, lifecycleVars, mouseVars,
                    clientVars, captureVars, password, sessionVars, response,
                    pc_state, observer, reports, cb_pending, cb_pc,
                    callbacks_run >>

\* The transport finishes candidate gathering: the promise taken at
\* route.rs:130 resolves and the local description holds every candidate.
GatheringComplete(h) ==
    /\ gathering[h] = "gathering"
    /\ gathering' = [gathering EXCEPT ![h] = "complete"]
    /\ local_description' = [local_description EXCEPT ![h] = "full"]
    /\ Log(h, "gathering_complete")
    /\ UNCHANGED << codecVars, offerVars, framerate, lifecycleVars, mouseVars,
                    clientVars, captureVars, password, sessionVars, hpc,
                    sdp_data, result, response, pc_state, observer, reports,
                    cb_pending, cb_pc, callbacks_run >>

\* Mutant of GatherCompleteRecv: the handler does not wait for the promise.
GatherCompleteRecvNoWait(h) == TRUE

\* route.rs:132: gather_complete.recv().await returns once gathering of the
\* transport has completed.
GatherCompleteRecv(h) == gathering[h] = "complete"

AwaitGathering(h) ==
    /\ hpc[h] = "gather"
    /\ GatherCompleteRecv(h)
    /\ Goto(h, "read")
    /\ UNCHANGED << codecVars, offerVars, framerate, lifecycleVars, mouseVars,
                    clientVars, captureVars, password, sessionVars, response,
                    events, transportVars >>

\* route.rs:134-140 and 146-151: read the local description; build the
\* response from it, or fail when the transport has none.
ReadLocalDescription(h) ==
    /\ hpc[h] = "read"
    /\ \E desc \in {local_description[h], "none"} :
        IF desc = "none"
           THEN /\ Finish(h, "NoLocalDescription")
                /\ UNCHANGED << response, events >>
           ELSE /\ response' = [response EXCEPT ![h] = desc]
                /\ Goto(h, "respond")
                /\ Log(h, "local_description")
    /\ UNCHANGED << codecVars, offerVars, framerate, lifecycleVars, mouseVars,
                    clientVars, captureVars, password, sessionVars,
                    transportVars >>

\* route.rs:142-145: set Connected and reply with the answer.
Respond(h) ==
    /\ hpc[h] = "respond"
    /\ connection' = "Connected"
    /\ Finish(h, "Ok")
    /\ Log(h, "respond")
    /\ UNCHANGED << codecVars, offerVars, framerate, lifecycleVars, mouseVars,
                    clientVars, captureVars, password, peer_connection,
                    video_track, response, transportVars >>

\* ---------------------------------------------- transport and its observer
\* States a transport may report after state `from` ("new" or a terminal
\* state already reported): Disconnected may turn into Failed or Closed,
\* Failed into Closed, Closed is final.
NextReports(from) ==
    CASE from = "new" -> TerminalStates
      [] from = "Disconnected" -> {"Failed", "Closed"}
      [] from = "Failed" -> {"Closed"}
      [] OTHER -> {}

\* The transport reports a terminal state s to its registered handler
\* (route.rs:110-111); the handler's future runs later (route.rs:113).
TransportReport(h) ==
    /\ observer[h]
    /\ local_description[h] # "none"
    /\ reports[h] < MaxReports
    /\ \E s \in NextReports(pc_state[h]) :
        pc_state' = [pc_state EXCEPT ![h] = s]
    /\ reports' = [reports EXCEPT ![h] = @ + 1]
    /\ cb_pending' = [cb_pending EXCEPT ![h] = @ + 1]
    /\ UNCHANGED << codecVars, offerVars, framerate, lifecycleVars, mouseVars,
                    clientVars, captureVars, password, sessionVars,
                    handlerVars, observer, gathering, local_description,
                    cb_pc, callbacks_run >>

\* route.rs:114-118: the callback of a terminal report starts and resets the
\* connection state.  Callbacks of one transport run one after the other.
CallbackResetConnection(h) ==
    /\ cb_pending[h] > 0
    /\ cb_pc[h] = "idle"
    /\ cb_pending' = [cb_pending EXCEPT ![h] = @ - 1]
    /\ connection' = "Disconnected"
    /\ cb_pc' = [cb_pc EXCEPT ![h] = "peer_connection"]
    /\ UNCHANGED << codecVars, offerVars, framerate, lifecycleVars, mouseVars,
                    clientVars, captureVars, password, peer_connection,
                    video_track, handlerVars, pc_state, observer, gathering,
                    local_description, reports, callbacks_run >>

\* route.rs:119
CallbackClearPeerConnection(h) ==
    /\ cb_pc[h] = "peer_connection"
    /\ peer_connection' = None
    /\ cb_pc' = [cb_pc EXCEPT ![h] = "video_track"]
    /\ UNCHANGED << codecVars, offerVars, framerate, lifecycleVars, mouseVars,
                    clientVars, captureVars, password, connection,
                    video_track, handlerVars, pc_state, observer, gathering,
                    local_description, reports, cb_pending, callbacks_run >>

\* route.rs:120
CallbackClearVideoTrack(h) ==
    /\ cb_pc[h] = "video_track"
    /\ video_track_lock = "free"
    /\ video_track' = None
    /\ cb_pc' = [cb_pc EXCEPT ![h] = "idle"]
    /\ callbacks_run' = [callbacks_run EXCEPT ![h] = @ + 1]
    /\ UNCHANGED << codecVars, offerVars, framerate, lifecycleVars, mouseVars,
                    clientVars, captureVars, password, connection,
                    peer_connection, handlerVars, pc_state, observer,
                    gathering, local_description, reports, cb_pending >>

\* ------------------------------------------- capture_screen: encode worker
\* Duration::from_secs_f64(1.0 / framerate) (capture.rs:246-247), in
\* nanoseconds, the resolution of Duration.
SampleDuration(rate) == (1000000000 + rate \div 2) \div rate

\* Mutant of SampleDurationOf: the first sample has no duration yet.
SampleDurationSinceLast(seq, rate) ==
    IF seq = 1 THEN 0 ELSE SampleDuration(rate)

\* capture.rs:246-247: the duration of the sample made of frame seq.
SampleDurationOf(seq, rate) == SampleDuration(rate)

\* A sample as built at capture.rs:249-253, named by the frame it encodes;
\* session records the video_track value seen by the check at capture.rs:243.
Sample(seq, session) ==
    [seq |-> seq, session |-> session,
     duration |-> SampleDurationOf(seq, framerate)]

\* The denominator of encoder_time_base (capture.rs:162).
EncoderTimeBase == 90000

\* Mutant of Pts: the counter is used after its increment.
PtsAfterIncrement(count, rate) == ((count + 1) * EncoderTimeBase) \div rate

\* capture.rs:233-234: (frame_count as f64 * 90000 as f64 / framerate as
\* f64) as i64; the cast truncates the non-negative quotient.
Pts(count, rate) == (count * EncoderTimeBase) \div rate

\* capture.rs:229, 237 and 240: an error of decoder.send_packet, scaler.run
\* or encoder.send_frame leaves capture_task through `?`.
FrameFailed == "done"

\* capture.rs:226-242: read the next input packet and decode it into a raw
\* frame, stamp and count the frame, scale it and encode it into a packet;
\* the decoder fails before the frame is counted, the scaler and the encoder
\* after it.  The sender of the channel is dropped with the task.
CaptureFrame ==
    /\ enc_pc = "capture"
    /\ frame_count < MaxFrames
    /\ \E outcome \in {"encoded", "decode_failed", "encode_failed"} :
          /\ IF outcome = "decode_failed"
                THEN UNCHANGED << frame_count, pts >>
                ELSE /\ pts' = Some(Pts(frame_count, framerate))
                     /\ frame_count' = frame_count + 1
          /\ enc_pc' = IF outcome = "encoded" THEN "encoded" ELSE FrameFailed
    /\ UNCHANGED << codecVars, offerVars, framerate, lifecycleVars, mouseVars,
                    clientVars, password, sessionVars, handlerVars,
                    transportVars, video_track_lock, queue, enc_session,
                    sendVars, shutdown_signal, sampleLogs >>

\* Mutant of CheckVideoTrack: lock().await in place of try_lock(), so the
\* worker waits while another task holds the lock.
CheckVideoTrackBlocking ==
    /\ enc_pc = "encoded"
    /\ video_track_lock = "free"
    /\ IF IsSome(video_track)
          THEN /\ enc_pc' = "send"
               /\ enc_session' = video_track
          ELSE /\ enc_pc' = "shutdown"
               /\ UNCHANGED enc_session
    /\ UNCHANGED << codecVars, offerVars, framerate, lifecycleVars, mouseVars,
                    clientVars, password, sessionVars, handlerVars,
                    transportVars, video_track_lock, queue, frame_count, pts,
                    sendVars, shutdown_signal, sampleLogs >>

\* capture.rs:242-243: video_track.try_lock().is_ok_and(|t| t.is_some());
\* the guard is dropped at the end of the condition.
CheckVideoTrack ==
    /\ enc_pc = "encoded"
    /\ IF video_track_lock = "free" /\ IsSome(video_track)
          THEN /\ enc_pc' = "send"
               /\ enc_session' = video_track
          ELSE /\ enc_pc' = "shutdown"
               /\ UNCHANGED enc_session
    /\ UNCHANGED << codecVars, offerVars, framerate, lifecycleVars, mouseVars,
                    clientVars, password, sessionVars, handlerVars,
                    transportVars, video_track_lock, queue, frame_count, pts,
                    sendVars, shutdown_signal, sampleLogs >>

\* Mutant of TrySend: the channel is unbounded.
TrySendUnbounded(q, sample, receiver_alive) ==
    IF receiver_alive THEN Append(q, sample) ELSE q

\* mpsc::Sender::try_send on the channel of capture.rs:61: the sample is
\* appended when the channel has room and its receiver is alive, and is
\* dropped otherwise.
TrySend(q, sample, receiver_alive) ==
    IF receiver_alive /\ Len(q) < SampleQueueCapacity
       THEN Append(q, sample)
       ELSE q

\* capture.rs:244-256: build the sample and try_send it.
SendSample ==
    /\ enc_pc = "send"
    /\ queue' = TrySend(queue, Sample(frame_count, enc_session[1]),
                        send_pc # "done")
    /\ enqueued' = IF queue' # queue
                      THEN Append(enqueued,
                                  Sample(frame_count, enc_session[1]))
                      ELSE enqueued
    /\ enc_session' = None
    /\ enc_pc' = "shutdown"
    /\ UNCHANGED << codecVars, offerVars, framerate, lifecycleVars, mouseVars,
                    clientVars, password, sessionVars, handlerVars,
                    transportVars, video_track_lock, frame_count, pts,
                    sendVars, shutdown_signal, dequeued, written >>

\* capture.rs:261-263: leave the packet loop once the shutdown flag is set.
CheckShutdown ==
    /\ enc_pc = "shutdown"
    /\ enc_pc' = IF shutdown_signal THEN "done" ELSE "capture"
    /\ UNCHANGED << codecVars, offerVars, framerate, lifecycleVars, mouseVars,
                    clientVars, password, sessionVars, handlerVars,
                    transportVars, video_track_lock, queue, frame_count,
                    enc_session, pts, sendVars, shutdown_signal, sampleLogs >>

\* --------------------------------------------- capture_screen: send worker
\* capture.rs:68 and 79: the loop condition; when the task ends its receiver
\* and the samples still queued are dropped.
SendLoop ==
    /\ send_pc = "loop"
    /\ IF shutdown_signal
          THEN send_pc' = "done" /\ queue' = << >>
          ELSE send_pc' = "recv" /\ UNCHANGED queue
    /\ UNCHANGED << codecVars, offerVars, framerate, lifecycleVars, mouseVars,
                    clientVars, password, sessionVars, handlerVars,
                    transportVars, video_track_lock, encodeVars, send_sample,
                    shutdown_signal, sampleLogs >>

\* Mutant of Dequeue: the sample received stays in the channel.
DequeuePeek(q) == q

\* mpsc::Receiver::recv (capture.rs:69) takes the oldest sample out of the
\* channel.
Dequeue(q) == Tail(q)

\* capture.rs:69: rx.recv().await yields the oldest sample; it yields None
\* when the queue is empty and the sender was dropped with the encode worker.
Recv ==
    /\ send_pc = "recv"
    /\ IF queue # << >>
          THEN /\ send_sample' = Some(Head(queue))
               /\ dequeued' = Append(dequeued, Head(queue))
               /\ queue' = Dequeue(queue)
               /\ send_pc' = "lock"
          ELSE /\ enc_pc = "done"
               /\ send_pc' = "loop"
               /\ UNCHANGED << queue, send_sample, dequeued >>
    /\ UNCHANGED << codecVars, offerVars, framerate, lifecycleVars, mouseVars,
                    clientVars, password, sessionVars, handlerVars,
                    transportVars, video_track_lock, encodeVars,
                    shutdown_signal, enqueued, written >>

\* capture.rs:70: take the video_track lock; the guard lives until the end
\* of the if-let body, so it is kept while a track is there and dropped at
\* once (with the sample) when there is none.
LockVideoTrack ==
    /\ send_pc = "lock"
    /\ video_track_lock = "free"
    /\ IF IsSome(video_track)
          THEN /\ video_track_lock' = "send_task"
               /\ send_pc' = "write"
               /\ UNCHANGED send_sample
          ELSE /\ send_pc' = "loop"
               /\ send_sample' = None
               /\ UNCHANGED video_track_lock
    /\ UNCHANGED << codecVars, offerVars, framerate, lifecycleVars, mouseVars,
                    clientVars, password, sessionVars, handlerVars,
                    transportVars, queue, encodeVars, shutdown_signal,
                    sampleLogs >>

\* capture.rs:71-75: write_sample(&sample).await on the track found at
\* capture.rs:70 returns (Ok or Err); the sample and the guard are dropped.
WriteSample ==
    /\ send_pc = "write"
    /\ written' = Append(written, [sample |-> send_sample[1],
                                   track |-> video_track[1]])
    /\ video_track_lock' = "free"
    /\ send_sample' = None
    /\ send_pc' = "loop"
    /\ UNCHANGED << codecVars, offerVars, framerate, lifecycleVars, mouseVars,
                    clientVars, password, sessionVars, handlerVars,
                    transportVars, queue, encodeVars, shutdown_signal,
                    enqueued, dequeued >>

\* capture.rs:269-275: one of the two workers has finished; capture_screen
\* returns its result and no longer listens for the shutdown broadcast.
CaptureScreenReturns ==
    /\ cs_pc = "select"
    /\ enc_pc = "done" \/ send_pc = "done"
    /\ cs_pc' = "returned"
    /\ UNCHANGED << codecVars, offerVars, framerate, main_pc, shutdown_timer,
                    cm_pc, pair_pc, mouseVars, clientVars, password,
                    sessionVars, handlerVars, transportVars, captureVars >>

\* capture.rs:276-280: capture_screen receives the shutdown broadcast, sets
\* the flag of its workers and returns.
ShutdownObserved ==
    /\ cs_pc = "select"
    /\ main_pc # "serving"
    /\ shutdown_signal' = TRUE
    /\ cs_pc' = "returned"
    /\ UNCHANGED << codecVars, offerVars, framerate, main_pc, shutdown_timer,
                    cm_pc, pair_pc, mouseVars, clientVars, password,
                    sessionVars, handlerVars, transportVars, video_track_lock,
                    queue, encodeVars, sendVars, sampleLogs >>

\* ------------------------------------------- capture_mouse: the sampler
\* ticks_left of a run whose interval never stops ticking.
Unlimited == 0 - 1

\* A coordinate is the quotient num/den of two integers, den > 0; the f64
\* division of capture.rs:326 keeps the order of such a quotient against 0.0
\* and 1.0.
Ratio(num, den) == [num |-> num, den |-> den]

\* The literals 0.0 (capture.rs:328) and -1.0 (capture.rs:341).
Zero == Ratio(0, 1)
MinusOne == Ratio(0 - 1, 1)

\* capture.rs:325-329 and 331-335: the position relative to the device, or
\* 0.0 for a device without extent.  raw and origin are screen coordinates
\* (a few thousand pixels), for which the i32 subtraction is exact.
Relative(raw, origin, extent) ==
    IF extent > 0 THEN Ratio(raw - origin, extent) ELSE Zero

\* Mutant of Clamp: the far edge of the device is out of bounds.
ClampExclusive(relative) ==
    IF relative.num >= 0 /\ relative.num < relative.den
       THEN relative
       ELSE MinusOne

\* capture.rs:338-348: relative >= 0.0 && relative <= 1.0, else -1.0.
Clamp(relative) ==
    IF relative.num >= 0 /\ relative.num <= relative.den
       THEN relative
       ELSE MinusOne

\* shared/mod.rs:11-15.
MousePosition(x, y) == [x |-> x, y |-> y]

\* capture.rs:325-353: the position published for a raw pointer position.
Normalize(dev, raw) ==
    MousePosition(Clamp(Relative(raw.x, dev.x, dev.width)),
                  Clamp(Relative(raw.y, dev.y, dev.height)))

\* Mutant of MouseTrySend: a full channel gives up its oldest position.
MouseTrySendDropOldest(q, position, receiver_alive) ==
    IF ~receiver_alive
       THEN [queue |-> q, outcome |-> "closed"]
       ELSE IF Len(q) < MouseQueueCapacity
               THEN [queue |-> Append(q, position), outcome |-> "sent"]
               ELSE [queue |-> Append(Tail(q), position), outcome |-> "sent"]

\* mpsc::Sender::try_send on the channel of capture.rs:288.
MouseTrySend(q, position, receiver_alive) ==
    IF ~receiver_alive
       THEN [queue |-> q, outcome |-> "closed"]
       ELSE IF Len(q) < MouseQueueCapacity
               THEN [queue |-> Append(q, position), outcome |-> "sent"]
               ELSE [queue |-> q, outcome |-> "full"]

\* capture.rs:320: the loop condition of the sampler.
MouseLoop ==
    /\ ms_pc = "loop"
    /\ ms_pc' = IF mouse_shutdown_signal THEN "done" ELSE "tick"
    /\ UNCHANGED << codecVars, offerVars, framerate, lifecycleVars, password,
                    sessionVars, handlerVars, transportVars, captureVars,
                    clientVars, device, pointer, ticks_left, mouse_queue,
                    ms_raw, current_position, ms_last, msend_pc,
                    msend_position, mouse_channel, data_channel, sent,
                    mouse_shutdown_signal >>

\* capture.rs:321-361: a tick of the interval; the pointer is read where it
\* is by now and normalised and the position is offered to the channel, or
\* the read fails and the sampler ends.
MouseSample ==
    /\ ms_pc = "tick"
    /\ ticks_left # 0
    /\ ticks_left' = IF ticks_left = Unlimited THEN Unlimited
                     ELSE ticks_left - 1
    /\ \E reading \in {Some(p) : p \in PointerMoves(pointer, ms_raw)}
                       \cup {None} :
          IF IsSome(reading)
             THEN LET offer == MouseTrySend(mouse_queue,
                                            Normalize(device, reading[1]),
                                            msend_pc # "done")
                  IN /\ pointer' = reading[1]
                     /\ ms_raw' = reading
                     /\ current_position' = Some(Normalize(device, reading[1]))
                     /\ mouse_queue' = offer.queue
                     /\ ms_last' = offer.outcome
                     /\ ms_pc' = "loop"
             ELSE /\ ms_pc' = "done"
                  /\ UNCHANGED << pointer, ms_raw, current_position,
                                  mouse_queue, ms_last >>
    /\ UNCHANGED << codecVars, offerVars, framerate, lifecycleVars, password,
                    sessionVars, handlerVars, transportVars, captureVars,
                    clientVars, device, msend_pc, msend_position,
                    mouse_channel, data_channel, sent,
                    mouse_shutdown_signal >>

\* --------------------------------------- capture_mouse: the send worker
\* capture.rs:295 and 309-311: the loop condition; when the task ends its
\* receiver and the positions still queued are dropped.
MouseSendLoop ==
    /\ msend_pc = "loop"
    /\ IF mouse_shutdown_signal
          THEN msend_pc' = "done" /\ mouse_queue' = << >>
          ELSE msend_pc' = "recv" /\ UNCHANGED mouse_queue
    /\ UNCHANGED << codecVars, offerVars, framerate, lifecycleVars, password,
                    sessionVars, handlerVars, transportVars, captureVars,
                    clientVars, device, pointer, ticks_left, ms_pc, ms_raw,
                    current_position, ms_last, msend_position, mouse_channel,
                    data_channel, sent, mouse_shutdown_signal >>

\* capture.rs:296: rx.recv().await yields the oldest position; it yields
\* None when the channel is empty and the sampler has ended.
MouseRecv ==
    /\ msend_pc = "recv"
    /\ IF mouse_queue # << >>
          THEN /\ msend_position' = Some(Head(mouse_queue))
               /\ mouse_queue' = Tail(mouse_queue)
               /\ msend_pc' = "send"
          ELSE /\ ms_pc = "done"
               /\ msend_pc' = "loop"
               /\ UNCHANGED << mouse_queue, msend_position >>
    /\ UNCHANGED << codecVars, offerVars, framerate, lifecycleVars, password,
                    sessionVars, handlerVars, transportVars, captureVars,
                    clientVars, device, pointer, ticks_left, ms_pc, ms_raw,
                    current_position, ms_last, mouse_channel, data_channel,
                    sent, mouse_shutdown_signal >>

\* The channel a handle refers to is open: its client created it
\* (client/connect.rs:60-63) and the transport is up.
ReadyStateOpen(h) == data_channel[h] = "open" /\ pc_state[h] = "new"

\* serde_json::to_string(&position) (capture.rs:301).
ToJson(position) == << "{", "x", position.x, "y", position.y, "}" >>

\* Mutant of ShouldSendText: the ready state is not looked at.
ShouldSendTextAlways(channel) == TRUE

\* capture.rs:297-300: a handle is there and its ready state is Open.
ShouldSendText(channel) == IsSome(channel) /\ ReadyStateOpen(channel[1])

\* capture.rs:297-307: with the mouse_channel lock held, the position is
\* sent as JSON text if a handle is there and open; the position is dropped
\* in every case.
MouseSend ==
    /\ msend_pc = "send"
    /\ sent' = IF ShouldSendText(mouse_channel)
                  THEN Append(sent, [channel |-> mouse_channel,
                                     msg |-> ToJson(msend_position[1])])
                  ELSE sent
    /\ msend_position' = None
    /\ msend_pc' = "loop"
    /\ UNCHANGED << codecVars, offerVars, framerate, lifecycleVars, password,
                    sessionVars, handlerVars, transportVars, captureVars,
                    clientVars, device, pointer, ticks_left, mouse_queue,
                    ms_pc, ms_raw, current_position, ms_last, mouse_channel,
                    data_channel, mouse_shutdown_signal >>

\* capture.rs:367-373: one of the two workers has finished; capture_mouse
\* returns its result and no longer listens for the shutdown broadcast.
CaptureMouseReturns ==
    /\ cm_pc = "select"
    /\ ms_pc = "done" \/ msend_pc = "done"
    /\ cm_pc' = "returned"
    /\ UNCHANGED << codecVars, offerVars, framerate, main_pc, shutdown_timer,
                    cs_pc, pair_pc, password, sessionVars, handlerVars,
                    transportVars, captureVars, clientVars, mouseVars >>

\* capture.rs:374-378: capture_mouse, still waiting in select, receives the
\* shutdown broadcast, sets the flag of its workers and returns.
MouseShutdownObserved ==
    /\ cm_pc = "select"
    /\ main_pc # "serving"
    /\ mouse_shutdown_signal' = TRUE
    /\ cm_pc' = "returned"
    /\ UNCHANGED << codecVars, offerVars, framerate, main_pc, shutdown_timer,
                    cs_pc, pair_pc, password, sessionVars, handlerVars,
                    transportVars, captureVars, clientVars, device, pointer,
                    ticks_left, mouse_queue, ms_pc, ms_raw, current_position,
                    ms_last, msend_pc, msend_position, mouse_channel,
                    data_channel, sent >>

\* ------------------------------------------- run_cli_server and pairing
\* pair.rs:12-36: the mDNS daemon is created and the service registered; an
\* error of either returns from start_pairing_service.
PairingSetup ==
    /\ pair_pc = "setup"
    /\ \E ok \in BOOLEAN : pair_pc' = IF ok THEN "recv" ELSE "returned"
    /\ UNCHANGED << codecVars, offerVars, framerate, main_pc, shutdown_timer,
                    cs_pc, cm_pc, password, sessionVars, handlerVars,
                    transportVars, captureVars, clientVars, mouseVars >>

\* pair.rs:39-44: the pairing service receives the shutdown broadcast, shuts
\* the daemon down and returns.
PairingShutdown ==
    /\ pair_pc = "recv"
    /\ main_pc # "serving"
    /\ pair_pc' = "returned"
    /\ UNCHANGED << codecVars, offerVars, framerate, main_pc, shutdown_timer,
                    cs_pc, cm_pc, password, sessionVars, handlerVars,
                    transportVars, captureVars, clientVars, mouseVars >>

\* mod.rs:109-122: ctrl-c ends the warp server; run_cli_server sends the
\* shutdown broadcast (a synchronous send whose result is ignored) and
\* starts the 3-second timeout around the join of the three tasks.
Shutdown ==
    /\ main_pc = "serving"
    /\ main_pc' = "join"
    /\ shutdown_timer' = "armed"
    /\ UNCHANGED << codecVars, offerVars, framerate, cs_pc, cm_pc, pair_pc,
                    password, sessionVars, handlerVars, transportVars,
                    captureVars, clientVars, mouseVars >>

\* mod.rs:123: tokio::join! of the three task handles is ready once the
\* three tasks have returned.
Joined == cs_pc = "returned" /\ cm_pc = "returned" /\ pair_pc = "returned"

\* mod.rs:122-127: the join completes within the timeout and run_cli_server
\* returns.
JoinCompletes ==
    /\ main_pc = "join"
    /\ shutdown_timer = "armed"
    /\ Joined
    /\ main_pc' = "returned"
    /\ shutdown_timer' = "cancelled"
    /\ UNCHANGED << codecVars, offerVars, framerate, cs_pc, cm_pc, pair_pc,
                    password, sessionVars, handlerVars, transportVars,
                    captureVars, clientVars, mouseVars >>

\* Mutant of TimeoutReady: the timeout never fires.
TimeoutNever == FALSE

\* mod.rs:121-122: tokio::time::timeout fires 3 seconds after it was
\* started, whatever the tasks do.
TimeoutReady == shutdown_timer = "armed"

\* mod.rs:122-127: the timeout expires first and run_cli_server returns
\* without the tasks.
TimeoutExpires ==
    /\ main_pc = "join"
    /\ TimeoutReady
    /\ main_pc' = "returned"
    /\ shutdown_timer' = "expired"
    /\ UNCHANGED << codecVars, offerVars, framerate, cs_pc, cm_pc, pair_pc,
                    password, sessionVars, handlerVars, transportVars,
                    captureVars, clientVars, mouseVars >>

\* client/connect.rs:60-63 and 99-101: the "mouse" data channel the client
\* created opens once its offer was answered and the transport is up.
DataChannelOpen(h) ==
    /\ result[h] = "Ok"
    /\ pc_state[h] = "new"
    /\ data_channel[h] = "none"
    /\ data_channel' = [data_channel EXCEPT ![h] = "open"]
    /\ UNCHANGED << codecVars, offerVars, framerate, lifecycleVars, password,
                    sessionVars, handlerVars, transportVars, captureVars,
                    clientVars, device, pointer, ticks_left, mouse_queue,
                    ms_pc, ms_raw, current_position, ms_last, msend_pc,
                    msend_position, mouse_channel, sent,
                    mouse_shutdown_signal >>

\* ---------------------------------------- client: process_video_track
\* client/connect.rs:128: the Annex B start code.
StartCode == << 0, 0, 0, 1 >>

\* What H264Packet::depacketize returns for an RTP payload
\* (client/connect.rs:141): Err (None) or Ok(bytes), bytes possibly empty.
Depacketized == {None, Some(<< >>), Some(<< 5 >>), Some(<< 6, 7 >>)}

\* An RTP packet as process_video_track uses it: the depacketized payload,
\* header.marker and header.timestamp.
Fragments ==
    [depacketized : Depacketized, marker : BOOLEAN, timestamp : {1, 2}]

\* Mutant of Extend: the payload is appended without its start code.
ExtendNoStartCode(buf, depacketized) ==
    IF IsSome(depacketized) /\ depacketized[1] # << >>
       THEN buf \o depacketized[1]
       ELSE buf

\* client/connect.rs:141-147: a non-empty payload is appended to frame_buf
\* behind a start code; an error or an empty payload leaves frame_buf as is.
Extend(buf, depacketized) ==
    IF IsSome(depacketized) /\ depacketized[1] # << >>
       THEN buf \o StartCode \o depacketized[1]
       ELSE buf

\* Mutant of ShouldFlush: flush on every marker.
ShouldFlushOnMarker(marker, buf) == marker

\* client/connect.rs:150: rtp_packet.header.marker && !frame_buf.is_empty().
ShouldFlush(marker, buf) == marker /\ buf # << >>

\* Mutant of Take: the buffer keeps its bytes.
TakeCopy(buf) == [taken |-> buf, left |-> buf]

\* client/connect.rs:152: std::mem::take(&mut frame_buf).
Take(buf) == [taken |-> buf, left |-> << >>]

\* client/connect.rs:151-154: WebRTCPacket { data, timestamp }.
WebRTCPacket(data, timestamp) == [data |-> data, timestamp |-> timestamp]

\* client/connect.rs:132-156: read_rtp yields a packet; its payload is
\* depacketized into frame_buf; on a marker with a non-empty buffer the buffer
\* is taken into an access unit, which is handed to packet_tx.send.
ReadRtp ==
    /\ dpc = "read"
    /\ Len(fragments) < MaxFragments
    /\ \E rtp_packet \in Fragments :
          LET buf == Extend(frame_buf, rtp_packet.depacketized)
              take == Take(buf)
          IN /\ fragments' = Append(fragments, rtp_packet)
             /\ IF ShouldFlush(rtp_packet.marker, buf)
                   THEN /\ raw_packet' = Some(WebRTCPacket(
                                            take.taken, rtp_packet.timestamp))
                        /\ frame_buf' = take.left
                        /\ emitted' = Append(emitted, raw_packet'[1])
                        /\ flushed' = Len(fragments')
                        /\ dpc' = "send"
                   ELSE /\ frame_buf' = buf
                        /\ UNCHANGED << raw_packet, emitted, flushed, dpc >>
    /\ UNCHANGED << codecVars, offerVars, framerate, lifecycleVars, password,
                    sessionVars, handlerVars, transportVars, captureVars,
                    mouseVars, packet_queue, vp_pc, displayVars, cursorVars >>

\* Mutant of ReadError: the bytes buffered so far are flushed as a last
\* access unit before the task returns.
ReadErrorFlushes ==
    /\ dpc = "read"
    /\ dpc' = "done"
    /\ frame_buf' = << >>
    /\ emitted' = IF frame_buf = << >> THEN emitted
                  ELSE Append(emitted, WebRTCPacket(frame_buf, 0))
    /\ UNCHANGED << codecVars, offerVars, framerate, lifecycleVars, password,
                    sessionVars, handlerVars, transportVars, captureVars,
                    mouseVars, raw_packet, packet_queue, fragments, flushed,
                    vp_pc, displayVars, cursorVars >>

\* client/connect.rs:132-138: read_rtp fails (the track ended); the task
\* returns and drops frame_buf and packet_tx.
ReadError ==
    /\ dpc = "read"
    /\ dpc' = "done"
    /\ frame_buf' = << >>
    /\ UNCHANGED << codecVars, offerVars, framerate, lifecycleVars, password,
                    sessionVars, handlerVars, transportVars, captureVars,
                    mouseVars, raw_packet, packet_queue, fragments, emitted,
                    flushed, vp_pc, displayVars, cursorVars >>

\* client/connect.rs:156-159: packet_tx.send(raw_packet).await waits for room
\* in the channel; it fails, and the task returns, when the receiver is gone.
SendPacket ==
    /\ dpc = "send"
    /\ IF vp_pc = "done"
          THEN /\ dpc' = "done"
               /\ UNCHANGED packet_queue
          ELSE /\ Len(packet_queue) < PacketQueueCapacity
               /\ packet_queue' = Append(packet_queue, raw_packet[1])
               /\ dpc' = "read"
    /\ raw_packet' = None
    /\ UNCHANGED << codecVars, offerVars, framerate, lifecycleVars, password,
                    sessionVars, handlerVars, transportVars, captureVars,
                    mouseVars, frame_buf, fragments, emitted, flushed, vp_pc,
                    displayVars, cursorVars >>

\* client/connect.rs:278-294: run_video_processor takes the oldest access
\* unit and feeds it to the decoder, which takes it or refuses it (continue);
\* recv yields None, and the processor returns, once the channel is empty and
\* packet_tx was dropped.
PacketRecv ==
    /\ vp_pc = "recv"
    /\ IF packet_queue # << >>
          THEN /\ packet_queue' = Tail(packet_queue)
               /\ \E send_packet_ok \in BOOLEAN :
                     vp_pc' = IF send_packet_ok THEN "frames" ELSE "recv"
          ELSE /\ dpc = "done"
               /\ vp_pc' = "done"
               /\ UNCHANGED packet_queue
    /\ UNCHANGED << codecVars, offerVars, framerate, lifecycleVars, password,
                    sessionVars, handlerVars, transportVars, captureVars,
                    mouseVars, depacketizerVars, displayVars, cursorVars >>

\* Mutant of StreamFrame: the frame keeps the `mouse: None` it is built
\* with.
StreamFrameNoMouse(mouse) == [mouse |-> None]

\* client/connect.rs:335-344: StreamFrame { .., mouse }.
StreamFrame(mouse) == [mouse |-> mouse]

\* client/connect.rs:326 and 328: an error of the scaler leaves
\* run_video_processor through `?`.
ConvertFailed == "done"

\* client/connect.rs:297-344: the decoder has no frame (the inner loop ends),
\* or it has one, which is converted to RGBA and gets the cursor position of
\* the shared cell; a failed conversion ends the processor, which drops
\* packet_rx.
ReceiveFrame ==
    /\ vp_pc = "frames"
    /\ \E outcome \in {"none", "frame", "convert_failed"} :
          IF outcome = "frame"
             THEN /\ stream_frame' = Some(StreamFrame(mouse_position))
                  /\ vp_pc' = "send"
                  /\ UNCHANGED packet_queue
             ELSE /\ vp_pc' = IF outcome = "none" THEN "recv" ELSE ConvertFailed
                  /\ packet_queue' = IF vp_pc' = "done" THEN << >>
                                     ELSE packet_queue
                  /\ UNCHANGED stream_frame
    /\ UNCHANGED << codecVars, offerVars, framerate, lifecycleVars, password,
                    sessionVars, handlerVars, transportVars, captureVars,
                    mouseVars, depacketizerVars, frame_queue, frame_rx_open,
                    cursorVars >>

\* mpsc::Sender::send on the channel of client/mod.rs:28 completes when the
\* channel has room or its receiver is gone, and waits otherwise.
FrameSendReady(q, receiver_open) ==
    ~receiver_open \/ Len(q) < FrameQueueCapacity

\* client/connect.rs:346-348: frame_tx.send(stream_frame).await; on an error
\* (the receiver is gone) the inner loop is left.
SendFrame ==
    /\ vp_pc = "send"
    /\ FrameSendReady(frame_queue, frame_rx_open)
    /\ IF frame_rx_open /\ Len(frame_queue) < FrameQueueCapacity
          THEN /\ frame_queue' = Append(frame_queue, stream_frame[1])
               /\ vp_pc' = "frames"
          ELSE /\ vp_pc' = IF frame_rx_open THEN "frames" ELSE "recv"
               /\ UNCHANGED frame_queue
    /\ stream_frame' = None
    /\ UNCHANGED << codecVars, offerVars, framerate, lifecycleVars, password,
                    sessionVars, handlerVars, transportVars, captureVars,
                    mouseVars, depacketizerVars, packet_queue, frame_rx_open,
                    cursorVars >>

\* client/gui.rs:96-98: the display consumer polls the channel with try_recv
\* on a window event.
GuiRecv ==
    /\ frame_rx_open
    /\ frame_queue # << >>
    /\ frame_queue' = Tail(frame_queue)
    /\ UNCHANGED << codecVars, offerVars, framerate, lifecycleVars, password,
                    sessionVars, handlerVars, transportVars, captureVars,
                    mouseVars, depacketizerVars, packet_queue, vp_pc,
                    stream_frame, frame_rx_open, cursorVars >>

\* client/gui.rs:101-103 and 180-181: the window is closed; run_gui returns
\* and drops frame_rx with the frames still queued.
GuiClose ==
    /\ frame_rx_open
    /\ frame_rx_open' = FALSE
    /\ frame_queue' = << >>
    /\ UNCHANGED << codecVars, offerVars, framerate, lifecycleVars, password,
                    sessionVars, handlerVars, transportVars, captureVars,
                    mouseVars, depacketizerVars, packet_queue, vp_pc,
                    stream_frame, cursorVars >>

\* ------------------------------------------ client: the control channel
\* serde_json::from_str::<MousePosition>(&text) (client/connect.rs:70-71):
\* the position of a text that serde_json::to_string made of one, and an
\* error (None) for any other text.
FromJson(text) ==
    IF Len(text) = 6 /\ text[1] = "{" /\ text[2] = "x" /\ text[4] = "y"
       THEN Some(MousePosition(text[3], text[5]))
       ELSE None

\* The texts a message of the control channel can carry: two positions as
\* the server writes them and a text that is no position.
ControlTexts ==
    { ToJson(MousePosition(Ratio(1, 2), Ratio(1, 2))),
      ToJson(MousePosition(MinusOne, Ratio(1, 2))),
      << "garbage" >> }

\* client/connect.rs:69-81: on_message parses the message and, if it is a
\* position, spawns a task that will store it.
OnMessage ==
    /\ Len(messages) < MaxMessages
    /\ \E text \in ControlTexts :
          /\ messages' = Append(messages, text)
          /\ apply_tasks' = IF IsSome(FromJson(text))
                               THEN apply_tasks \cup {Len(messages')}
                               ELSE apply_tasks
    /\ UNCHANGED << codecVars, offerVars, framerate, lifecycleVars, password,
                    sessionVars, handlerVars, transportVars, captureVars,
                    mouseVars, depacketizerVars, packet_queue, vp_pc,
                    displayVars, mouse_position >>

\* tokio::spawn (client/connect.rs:74): the runtime may run any of the
\* spawned tasks next.
Runnable(tasks) == tasks

\* client/connect.rs:74-76: a spawned task takes the lock of the shared cell
\* and stores its position.
ApplyMousePosition(i) ==
    /\ i \in Runnable(apply_tasks)
    /\ mouse_position' = FromJson(messages[i])
    /\ apply_tasks' = apply_tasks \ {i}
    /\ UNCHANGED << codecVars, offerVars, framerate, lifecycleVars, password,
                    sessionVars, handlerVars, transportVars, captureVars,
                    mouseVars, depacketizerVars, packet_queue, vp_pc,
                    displayVars, messages >>

\* ------------------------------------------ encoder and decoder selection
\* const HW_ENCODERS of each target_os (capture.rs:37-55).
HW_ENCODERS(os) ==
    CASE os = "windows" ->
             << "h264_nvenc", "h264_amf", "h264_qsv", "h264_mf" >>
      [] os = "macos" -> << "h264_videotoolbox" >>
      [] os = "linux" -> << "h264_nvenc", "h264_vaapi" >>

\* const HW_DECODERS of each target_os but macos, which has none
\* (client/connect.rs:164-177).
HW_DECODERS(os) ==
    CASE os = "windows" ->
             << "h264_cuvid", "h264_qsv", "h264_d3d11va", "h264_dxva2" >>
      [] os = "linux" -> << "h264_cuvid", "h264_vaapi", "h264_vdpau" >>

\* Mutant of FindMap: the last name of the list that is found wins.
RECURSIVE FindMapLast(_, _)
FindMapLast(names, registered) ==
    IF names = << >>
       THEN None
       ELSE IF names[Len(names)] \in registered
               THEN Some(names[Len(names)])
               ELSE FindMapLast(SubSeq(names, 1, Len(names) - 1), registered)

\* names.iter().find_map(find_by_name) (capture.rs:127-134,
\* client/connect.rs:182-189): the first name of the list that the codec
\* registry has, if any.
RECURSIVE FindMap(_, _)
FindMap(names, registered) ==
    IF names = << >>
       THEN None
       ELSE IF Head(names) \in registered
               THEN Some(Head(names))
               ELSE FindMap(Tail(names), registered)

\* find(Id::H264) (capture.rs:138, 145, client/connect.rs:192, 196): the
\* H.264 codec the registry has by default, the software one named here.
Find(software, registered) ==
    IF software \in registered THEN Some(software) ELSE None

\* capture.rs:125-149 and client/connect.rs:181-198: with acceleration the
\* first name found, else the default codec, whose absence is a panic of
\* expect; without acceleration the default codec, whose absence is an
\* error returned with `?`.
SelectCodec(accelerated, names, software, registered) ==
    LET found == IF accelerated THEN FindMap(names, registered) ELSE None
        default == Find(software, registered)
    IN IF IsSome(found) THEN found[1]
       ELSE IF IsSome(default) THEN default[1]
       ELSE IF accelerated THEN "panic" ELSE "error"

\* capture.rs:125-149: capture_task selects its encoder.
SelectEncoder ==
    /\ encoder_codec = "unset"
    /\ encoder_codec' = SelectCodec(acceleration, HW_ENCODERS(target_os),
                                    "libx264", encoders)
    /\ UNCHANGED << offerVars, framerate, lifecycleVars, password,
                    sessionVars, handlerVars, transportVars, captureVars,
                    mouseVars, clientVars, target_os, acceleration, encoders,
                    client_os, hwaccel, decoders, decoder_codec >>

\* client/connect.rs:179-202 and 221-252: setup_video_decoder selects its
\* decoder; on macos it is always the default codec.
SetupVideoDecoder ==
    /\ decoder_codec = "unset"
    /\ decoder_codec' =
          IF client_os = "macos"
             THEN SelectCodec(FALSE, << >>, "h264", decoders)
             ELSE SelectCodec(hwaccel, HW_DECODERS(client_os), "h264",
                              decoders)
    /\ UNCHANGED << offerVars, framerate, lifecycleVars, password,
                    sessionVars, handlerVars, transportVars, captureVars,
                    mouseVars, clientVars, target_os, acceleration, encoders,
                    encoder_codec, client_os, hwaccel, decoders >>

\* ------------------------------------------------- start_webrtc: the offer
\* The local description of the client's transport as local_description()
\* returns it: the offer with the n candidates gathered so far.
LocalDescription(n) == [type |-> "offer", candidates |-> n]

\* serde_json::to_string of a description, and STANDARD.encode of a string
\* (client/connect.rs:90).
ToJsonString(desc) == << "json", desc >>
Base64Encode(text) == << "base64", text >>

\* client/connect.rs:84: create_offer(None).await?; an error returns from
\* start_webrtc.
CreateOffer ==
    /\ webrtc_pc = "create_offer"
    /\ \E ok \in BOOLEAN :
          webrtc_pc' = IF ok THEN "set_local_description" ELSE "failed"
    /\ UNCHANGED << codecVars, framerate, lifecycleVars, password,
                    sessionVars, handlerVars, transportVars, captureVars,
                    mouseVars, clientVars, webrtc_password, ice_gathering,
                    candidates, sdp, posted >>

\* client/connect.rs:85: set_local_description(offer).await?; the transport
\* holds the offer without candidates and starts gathering them.
ClientSetLocalDescription ==
    /\ webrtc_pc = "set_local_description"
    /\ ice_gathering' = "gathering"
    /\ webrtc_pc' = "local_description"
    /\ UNCHANGED << codecVars, framerate, lifecycleVars, password,
                    sessionVars, handlerVars, transportVars, captureVars,
                    mouseVars, clientVars, webrtc_password, candidates, sdp,
                    posted >>

\* The client's transport gathers one more candidate.
GatherCandidate ==
    /\ ice_gathering = "gathering"
    /\ candidates < MaxCandidates
    /\ candidates' = candidates + 1
    /\ UNCHANGED << codecVars, framerate, lifecycleVars, password,
                    sessionVars, handlerVars, transportVars, captureVars,
                    mouseVars, clientVars, webrtc_pc, webrtc_password,
                    ice_gathering, sdp, posted >>

\* The client's transport finishes gathering, having found all candidates.
ClientGatheringComplete ==
    /\ ice_gathering = "gathering"
    /\ candidates = MaxCandidates
    /\ ice_gathering' = "complete"
    /\ UNCHANGED << codecVars, framerate, lifecycleVars, password,
                    sessionVars, handlerVars, transportVars, captureVars,
                    mouseVars, clientVars, webrtc_pc, webrtc_password,
                    candidates, sdp, posted >>

\* client/connect.rs:88-90: take the gathering promise, read the local
\* description and encode it; both calls return at once, whatever the
\* gathering state.
EncodeLocalDescription ==
    /\ webrtc_pc = "local_description"
    /\ sdp' = Some(Base64Encode(ToJsonString(LocalDescription(candidates))))
    /\ webrtc_pc' = "gather_complete"
    /\ UNCHANGED << codecVars, framerate, lifecycleVars, password,
                    sessionVars, handlerVars, transportVars, captureVars,
                    mouseVars, clientVars, webrtc_password, ice_gathering,
                    candidates, posted >>

\* client/connect.rs:91: gather_complete.recv().await returns once gathering
\* has completed.
ClientAwaitGathering ==
    /\ webrtc_pc = "gather_complete"
    /\ ice_gathering = "complete"
    /\ webrtc_pc' = "post"
    /\ UNCHANGED << codecVars, framerate, lifecycleVars, password,
                    sessionVars, handlerVars, transportVars, captureVars,
                    mouseVars, clientVars, webrtc_password, ice_gathering,
                    candidates, sdp, posted >>

\* client/connect.rs:95-106: post the request; a transport error or a
\* status other than success returns from start_webrtc.
PostOffer ==
    /\ webrtc_pc = "post"
    /\ posted' = Some([sdp |-> sdp[1], password |-> webrtc_password])
    /\ \E ok \in BOOLEAN :
          webrtc_pc' = IF ok THEN "answer" ELSE "failed"
    /\ UNCHANGED << codecVars, framerate, lifecycleVars, password,
                    sessionVars, handlerVars, transportVars, captureVars,
                    mouseVars, clientVars, webrtc_password, ice_gathering,
                    candidates, sdp >>

\* client/connect.rs:109-118: decode the answer and set it as the remote
\* description; an error of any of the calls returns from start_webrtc.
SetAnswer ==
    /\ webrtc_pc = "answer"
    /\ \E ok \in BOOLEAN :
          webrtc_pc' = IF ok THEN "connected" ELSE "failed"
    /\ UNCHANGED << codecVars, framerate, lifecycleVars, password,
                    sessionVars, handlerVars, transportVars, captureVars,
                    mouseVars, clientVars, webrtc_password, ice_gathering,
                    candidates, sdp, posted >>

\* ------------------------------------------------------------------- Next
\* One step of invocation h of sdp_handler, of the transport it created or
\* of that transport's observer.
SessionStep(h) ==
    \/ Receive(h)
    \/ VerifyPassword(h)
    \/ CheckConnection(h)
    \/ DecodeOffer(h)
    \/ CreatePeerConnection(h)
    \/ CreateVideoTrack(h)
    \/ RegisterObserver(h)
    \/ SetConnecting(h)
    \/ SetRemoteDescription(h)
    \/ CreateAnswer(h)
    \/ SetLocalDescription(h)
    \/ GatheringComplete(h)
    \/ AwaitGathering(h)
    \/ ReadLocalDescription(h)
    \/ Respond(h)
    \/ TransportReport(h)
    \/ CallbackResetConnection(h)
    \/ CallbackClearPeerConnection(h)
    \/ CallbackClearVideoTrack(h)

\* One step of the workers of capture_screen.
CaptureStep ==
    \/ CaptureFrame
    \/ CheckVideoTrack
    \/ SendSample
    \/ CheckShutdown
    \/ SendLoop
    \/ Recv
    \/ LockVideoTrack
    \/ WriteSample
    \/ CaptureScreenReturns
    \/ ShutdownObserved

\* The signaling endpoint under concurrent offers.
Next == \E h \in Offers : SessionStep(h)

Spec == Init /\ [][Next]_vars

\* The capture workers together with the signaling endpoint.
NextCapture ==
    \/ \E h \in CaptureOffers : SessionStep(h)
    \/ CaptureStep
    \/ Shutdown

SpecCapture == Init /\ [][NextCapture]_vars

\* The framerates of the --framerate option (main.rs:28-29) taken here: one
\* that divides neither 90000 nor a second, the default, the encoder's
\* clock rate and one above it.
Framerates == {7, DefaultFramerate, EncoderTimeBase, 2 * EncoderTimeBase}

\* A server without a password, started with any of the framerates.
InitEncode ==
    /\ password = None
    /\ framerate \in Framerates
    /\ InitServer
    /\ device = DefaultDevice
    /\ pointer = DefaultPointer
    /\ InitMouseWorkers(MaxTicks)
    /\ InitClient
    /\ InitSetup

\* The capture workers and the signaling endpoint under each framerate.
SpecEncode == InitEncode /\ [][NextCapture]_vars

\* One step of the workers of capture_mouse.
MouseStep ==
    \/ MouseLoop
    \/ MouseSample
    \/ MouseSendLoop
    \/ MouseRecv
    \/ MouseSend
    \/ CaptureMouseReturns
    \/ MouseShutdownObserved

\* The devices and raw pointer positions of the normalisation: a primary
\* monitor, a second monitor right of it and above its top edge, and the
\* device of unwrap_or_default (mod.rs:64-65); positions inside, on the
\* edges of and outside the devices.
Devices ==
    { DefaultDevice,
      [width |-> 1280, height |-> 720, x |-> 1920, y |-> 0 - 100],
      [width |-> 0, height |-> 0, x |-> 0, y |-> 0] }

RawPositions ==
    [x : {0 - 10, 0, 960, 1920, 1921, 3200, 3201},
     y : {0 - 101, 0 - 100, 0, 540, 620, 1080, 1081}]

\* capture_mouse on any of the devices, the pointer anywhere.
InitMouse ==
    /\ password = None
    /\ framerate = DefaultFramerate
    /\ InitServer
    /\ device \in Devices
    /\ pointer \in RawPositions
    /\ InitMouseWorkers(MaxTicks)
    /\ InitClient
    /\ InitSetup

\* The workers of capture_mouse and the shutdown of the server.
NextMouse ==
    \/ MouseStep
    \/ Shutdown

SpecMouse == InitMouse /\ [][NextMouse]_vars

\* The workers of capture_mouse together with the signaling endpoint and the
\* control channel of its client.
NextControl ==
    \/ \E h \in CaptureOffers : SessionStep(h) \/ DataChannelOpen(h)
    \/ MouseStep
    \/ Shutdown

SpecControl == Init /\ [][NextControl]_vars

\* The order of the signaling events of an accepted exchange
\* (route.rs:128-147).
AcceptedExchange ==
    << "set_remote_description", "create_answer", "set_local_description",
       "gathering_complete", "local_description", "respond" >>

\* The session, the handlers and the transports once the offer of invocation
\* 1, sent without a password to a server without one, was answered
\* (route.rs:142-147).
AcceptedSession ==
    /\ password = None
    /\ connection = "Connected"
    /\ peer_connection = Some(1)
    /\ video_track = Some(1)
    /\ hpc = [h \in Offers |-> IF h = 1 THEN "done" ELSE "idle"]
    /\ sdp_data = [h \in Offers |->
                      IF h = 1 THEN Moved
                      ELSE [sdp |-> "offer", password |-> None]]
    /\ result = [h \in Offers |-> IF h = 1 THEN "Ok" ELSE "none"]
    /\ response = [h \in Offers |-> IF h = 1 THEN "full" ELSE "none"]
    /\ events = [h \in Offers |-> IF h = 1 THEN AcceptedExchange ELSE << >>]
    /\ pc_state = [h \in Offers |-> IF h = 1 THEN "new" ELSE "none"]
    /\ observer = [h \in Offers |-> h = 1]
    /\ gathering = [h \in Offers |-> IF h = 1 THEN "complete" ELSE "new"]
    /\ local_description = [h \in Offers |->
                               IF h = 1 THEN "full" ELSE "none"]
    /\ reports = [h \in Offers |-> 0]
    /\ cb_pending = [h \in Offers |-> 0]
    /\ cb_pc = [h \in Offers |-> "idle"]
    /\ callbacks_run = [h \in Offers |-> 0]

\* The server once that offer was answered, before any capture worker has
\* moved.
AcceptedOffer ==
    /\ AcceptedSession
    /\ video_track_lock = "free"
    /\ queue = << >>
    /\ frame_count = 0
    /\ enc_pc = "capture"
    /\ enc_session = None
    /\ send_pc = "loop"
    /\ send_sample = None
    /\ shutdown_signal = FALSE
    /\ pts = None
    /\ enqueued = << >>
    /\ dequeued = << >>
    /\ written = << >>
    /\ InitLifecycle

\* The server after that offer, before any worker has moved; the interval of
\* capture_mouse ticks without bound.
InitConnected ==
    /\ AcceptedOffer
    /\ framerate = DefaultFramerate
    /\ device = DefaultDevice
    /\ pointer = DefaultPointer
    /\ InitMouseWorkers(Unlimited)
    /\ InitClient
    /\ InitSetup

\* The producers of the server and their consumers during a session, up to
\* the shutdown broadcast.
NextProducers ==
    \/ CaptureFrame
    \/ CheckVideoTrack
    \/ SendSample
    \/ CheckShutdown
    \/ SendLoop
    \/ Recv
    \/ LockVideoTrack
    \/ WriteSample
    \/ MouseLoop
    \/ MouseSample
    \/ MouseSendLoop
    \/ MouseRecv
    \/ MouseSend

SpecProducers == InitConnected /\ [][NextProducers]_vars

\* The server once that offer was answered, after all frames but the last
\* were captured and dropped while no session existed.
InitResume ==
    /\ AcceptedSession
    /\ video_track_lock = "free"
    /\ queue = << >>
    /\ frame_count = MaxFrames - 1
    /\ pts = Some(Pts(MaxFrames - 2, DefaultFramerate))
    /\ enc_pc = "capture"
    /\ enc_session = None
    /\ send_pc = "recv"
    /\ send_sample = None
    /\ shutdown_signal = FALSE
    /\ enqueued = << >>
    /\ dequeued = << >>
    /\ written = << >>
    /\ InitLifecycle
    /\ framerate = DefaultFramerate
    /\ device = DefaultDevice
    /\ pointer = DefaultPointer
    /\ InitMouseWorkers(MaxTicks)
    /\ InitClient
    /\ InitSetup

\* The capture workers and the signaling endpoint from there on: the
\* transport of the first session may report, and a second offer may arrive.
NextResume ==
    \/ \E h \in Offers : SessionStep(h)
    \/ CaptureStep
    \/ Shutdown

SpecResume == InitResume /\ [][NextResume]_vars

\* One step of run_cli_server's shutdown or of the pairing service.
LifecycleStep ==
    \/ PairingSetup
    \/ PairingShutdown
    \/ Shutdown
    \/ JoinCompletes
    \/ TimeoutExpires

\* The three tasks of run_cli_server and their workers, from the answer to
\* a first offer to the return of run_cli_server.
InitShutdown ==
    /\ AcceptedOffer
    /\ framerate = DefaultFramerate
    /\ device = DefaultDevice
    /\ pointer = DefaultPointer
    /\ InitMouseWorkers(MaxTicks)
    /\ InitClient
    /\ InitSetup

NextShutdown ==
    \/ CaptureStep
    \/ MouseStep
    \/ LifecycleStep

SpecShutdown == InitShutdown /\ [][NextShutdown]_vars

\* The client's depacketizer and the consumer of its access units.
NextClient ==
    \/ ReadRtp
    \/ ReadError
    \/ SendPacket
    \/ PacketRecv
    \/ ReceiveFrame
    \/ SendFrame
    \/ GuiRecv
    \/ GuiClose

SpecClient == Init /\ [][NextClient]_vars

\* The receiver of the client's control channel.
NextCursor ==
    \/ OnMessage
    \/ \E i \in 1..MaxMessages : ApplyMousePosition(i)

SpecCursor == Init /\ [][NextCursor]_vars

\* The client once process_video_track has sent two access units of one
\* fragment each and has ended on a read error, before run_video_processor
\* took the first of them and before a control message arrived.
InitDisplay ==
    /\ password = None
    /\ framerate = DefaultFramerate
    /\ InitServer
    /\ device = DefaultDevice
    /\ pointer = DefaultPointer
    /\ InitMouseWorkers(MaxTicks)
    /\ InitSetup
    /\ dpc = "done"
    /\ frame_buf = << >>
    /\ raw_packet = None
    /\ fragments = [i \in 1..PacketQueueCapacity |->
                       [depacketized |-> Some(<< 5 >>), marker |-> TRUE,
                        timestamp |-> 1]]
    /\ emitted = [i \in 1..PacketQueueCapacity |->
                     WebRTCPacket(StartCode \o << 5 >>, 1)]
    /\ flushed = PacketQueueCapacity
    /\ packet_queue = emitted
    /\ vp_pc = "recv"
    /\ stream_frame = None
    /\ frame_queue = << >>
    /\ frame_rx_open = TRUE
    /\ mouse_position = None
    /\ messages = << >>
    /\ apply_tasks = {}

\* run_video_processor and the display consumer, with the receiver of the
\* control channel.
NextDisplay ==
    \/ PacketRecv
    \/ ReceiveFrame
    \/ SendFrame
    \/ GuiRecv
    \/ GuiClose
    \/ NextCursor

SpecDisplay == InitDisplay /\ [][NextDisplay]_vars

\* Names a codec registry may hold on a platform: those of the platform's
\* list, one of another platform's list, and the software codec.
EncoderNames(os) ==
    {HW_ENCODERS(os)[i] : i \in 1..Len(HW_ENCODERS(os))}
        \cup {IF os = "linux" THEN "h264_qsv" ELSE "h264_vaapi", "libx264"}

DecoderNames(os) ==
    IF os = "macos"
       THEN {"h264_cuvid", "h264"}
       ELSE {HW_DECODERS(os)[i] : i \in 1..Len(HW_DECODERS(os))}
                \cup {IF os = "linux" THEN "h264_qsv" ELSE "h264_vaapi",
                      "h264"}

\* A server and a client before they select their codecs, on each platform,
\* with and without acceleration and with each codec registry.
InitCodec ==
    /\ password = None
    /\ framerate = DefaultFramerate
    /\ InitServer
    /\ device = DefaultDevice
    /\ pointer = DefaultPointer
    /\ InitMouseWorkers(MaxTicks)
    /\ InitClient
    /\ InitWebrtc(None)
    /\ target_os \in {"windows", "macos", "linux"}
    /\ acceleration \in BOOLEAN
    /\ encoders \in SUBSET EncoderNames(target_os)
    /\ encoder_codec = "unset"
    /\ client_os \in {"windows", "macos", "linux"}
    /\ hwaccel \in BOOLEAN
    /\ decoders \in SUBSET DecoderNames(client_os)
    /\ decoder_codec = "unset"

SpecCodec == InitCodec /\ [][SelectEncoder \/ SetupVideoDecoder]_vars

\* start_webrtc from the creation of its offer on, with each password.
InitOffer ==
    /\ password = None
    /\ framerate = DefaultFramerate
    /\ InitServer
    /\ device = DefaultDevice
    /\ pointer = DefaultPointer
    /\ InitMouseWorkers(MaxTicks)
    /\ InitClient
    /\ SoftwareCodecs
    /\ \E pw \in Passwords : InitWebrtc(pw)

NextOffer ==
    \/ CreateOffer
    \/ ClientSetLocalDescription
    \/ GatherCandidate
    \/ ClientGatheringComplete
    \/ EncodeLocalDescription
    \/ ClientAwaitGathering
    \/ PostOffer
    \/ SetAnswer

SpecOffer == InitOffer /\ [][NextOffer]_vars

\* ----------------------------------------------------------------- claims
\* Invocation h created a peer transport (route.rs:83).
Created(h) == pc_state[h] # "none"

\* The transport of invocation h is live: created, no terminal state reported.
Live(h) == pc_state[h] = "new"

\* Invocation h was not accepted: it has not passed the check of the
\* connection state at route.rs:72.
NotAccepted(h) ==
    \/ hpc[h] \in {"idle", "verify", "check"}
    \/ result[h] \in {"InvalidPassword", "Busy"}

\* AppState holds no session.
NoSession ==
    /\ connection = "Disconnected"
    /\ peer_connection = None
    /\ video_track = None

\* C1: of the offers handled while the state is Disconnected (no teardown
\* has happened yet), at most one creates a peer transport, and when every
\* offer was answered with a reply or a busy rejection exactly one was
\* accepted.
C1_ExactlyOneAccepted ==
    (\A h \in Offers : reports[h] = 0) =>
        /\ Cardinality({h \in Offers : Created(h)}) <= 1
        /\ (\A h \in Offers : result[h] \in {"Ok", "Busy"}) =>
               Cardinality({h \in Offers : result[h] = "Ok"}) = 1

\* C2: at most one peer transport created by sdp_handler is live.
C2_SingleViewer == Cardinality({h \in Offers : Live(h)}) <= 1

\* The offer of invocation h carries a password that differs from the
\* configured one.
WrongPassword(h) ==
    /\ IsSome(password)
    /\ IsSome(sdp_data[h].password)
    /\ sdp_data[h].password[1] # password[1]

\* C3: the password verification of an offer that carries a password
\* different from the configured one ends the invocation with the
\* invalid-password rejection and changes neither the connection state nor
\* peer_connection nor video_track, whatever the connection state is.
C3_WrongPasswordRejected ==
    [][\A h \in Offers :
          (hpc[h] = "verify" /\ hpc'[h] # "verify" /\ WrongPassword(h)) =>
              /\ hpc'[h] = "done"
              /\ result'[h] = "InvalidPassword"
              /\ UNCHANGED << sessionVars, pc_state >>]_vars

\* C3 witness: with the empty string configured, the second offer was
\* rejected for its password while a session was Connected.
C3_Witness ==
    /\ password = Some("")
    /\ connection = "Connected"
    /\ IsSome(peer_connection)
    /\ \E h \in Offers : result[h] = "InvalidPassword"

\* C4: an offer whose check observes Connecting or Connected is rejected as
\* busy, and the connection state, peer_connection, video_track and the set
\* of transports are left as they were.
C4_BusyRejected ==
    [][\A h \in Offers :
          (hpc[h] = "check" /\ hpc'[h] # "check"
              /\ connection \in {"Connecting", "Connected"}) =>
              /\ hpc'[h] = "done"
              /\ result'[h] = "Busy"
              /\ UNCHANGED << sessionVars, pc_state >>]_vars

\* C4 witness: an offer was rejected as busy while the session of another
\* offer is still Connecting.
C4_Witness ==
    /\ connection = "Connecting"
    /\ \E h, g \in Offers :
        /\ result[h] = "Busy"
        /\ hpc[g] = "gather"
        /\ peer_connection = Some(g)
        /\ video_track = Some(g)

\* C5: once every observer callback of the terminal reports of a transport
\* has run, and as long as no other offer has been accepted, AppState holds
\* no session (Disconnected, peer_connection and video_track cleared), also
\* when the report arrived while the handler of that session was still
\* awaiting candidate gathering.
C5_TornDownAfterCallback ==
    \A h \in Offers :
        (/\ callbacks_run[h] > 0
         /\ cb_pc[h] = "idle"
         /\ cb_pending[h] = 0
         /\ \A g \in Offers \ {h} : NotAccepted(g)) => NoSession

\* C6: when the only offer handled so far ended in a failure (rejection,
\* panic of an unwrap, missing local description), AppState is as it was
\* before the offer arrived: no session.
C6_FailureLeavesState ==
    \A h \in Offers :
        (/\ hpc[h] = "done"
         /\ result[h] # "Ok"
         /\ \A g \in Offers \ {h} : hpc[g] = "idle") => NoSession

\* C7: a success answer is returned only after candidate gathering of its
\* transport completed: the events of the exchange are, in this order, set
\* remote description, create answer, set local description, gathering
\* complete, read local description, respond, and the description in the
\* response is the fully gathered one.
C7_AnswerAfterGathering ==
    \A h \in Offers :
        /\ hpc[h] = "respond" => response[h] = "full"
        /\ result[h] = "Ok" =>
               /\ events[h] = AcceptedExchange
               /\ response[h] = "full"
               /\ gathering[h] = "complete"

\* C7 witness: an offer was answered with the fully gathered description.
C7_Witness ==
    \E h \in Offers : result[h] = "Ok" /\ response[h] = "full"

\* The edges of the session state machine.
SessionEdges ==
    { << "Disconnected", "Connecting" >>, << "Connecting", "Connected" >>,
      << "Connecting", "Disconnected" >>, << "Connected", "Disconnected" >> }

\* C8: the connection state changes only along Disconnected->Connecting,
\* Connecting->Connected and {Connecting, Connected}->Disconnected.
C8_OnlySessionEdges ==
    [][connection' # connection =>
          << connection, connection' >> \in SessionEdges]_vars

\* C9: the sample queue never holds more than 2 samples.
C9_QueueBounded == Len(queue) <= SampleQueueCapacity

\* C9 witness: the send worker has not taken a sample, the queue holds the
\* samples of frames 1 and 2, and the encode worker has finished the packet
\* of frame 3 with the track present and its lock free: that sample was
\* offered to the full queue and dropped.
C9_Witness ==
    /\ queue = << Sample(1, 1), Sample(2, 1) >>
    /\ frame_count = 3
    /\ enc_pc = "shutdown"
    /\ video_track = Some(1)
    /\ send_pc = "recv"

\* C10: the encode worker's handling of an encoded packet never waits: its
\* check of the track and its send to the queue are enabled in every state
\* in which the worker is at them.
C10_EncodeNeverBlocks ==
    /\ enc_pc = "encoded" => ENABLED CheckVideoTrack
    /\ enc_pc = "send" => ENABLED SendSample

\* C10 witness: the send worker is blocked in write_sample of frame 1 with
\* the video_track lock held, the sample of frame 2 is queued, and the
\* encode worker has finished the packet of frame 3, which it dropped
\* because the lock was held.
C10_Witness ==
    /\ send_pc = "write"
    /\ video_track_lock = "send_task"
    /\ send_sample = Some(Sample(1, 1))
    /\ queue = << Sample(2, 1) >>
    /\ frame_count = 3
    /\ enc_pc = "shutdown"


\* C11: an encoded packet is dropped only if no video track exists or the
\* sample queue is full: while the workers run, a packet that leaves the
\* check at capture.rs:243 with a track in place and room in the queue goes
\* on to try_send, and try_send appends it.
C11_DroppedOnlyWithoutTrackOrFull ==
    [][/\ ~shutdown_signal
       /\ send_pc # "done"
       /\ IsSome(video_track)
       /\ Len(queue) < SampleQueueCapacity
       => /\ (enc_pc = "encoded" /\ enc_pc' # "encoded") => enc_pc' = "send"
          /\ (enc_pc = "send" /\ enc_pc' # "send")
                => queue' = Append(queue, Sample(frame_count, enc_session[1]))
      ]_vars

\* C12: the lock on the video track handle is never held while a task is
\* blocked in a send to the transport: the send worker does not hold it
\* while it awaits write_sample.
C12_LockNotHeldAcrossWrite ==
    ~(send_pc = "write" /\ video_track_lock = "send_task")


\* The bytes the claims expect for a run of RTP packets: start code and
\* payload of every packet with a non-empty depacketized payload, in order.
RECURSIVE ExpectedBytes(_)
ExpectedBytes(frags) ==
    IF frags = << >>
       THEN << >>
       ELSE LET d == Head(frags).depacketized
            IN (IF IsSome(d) /\ d[1] # << >> THEN StartCode \o d[1] ELSE << >>)
               \o ExpectedBytes(Tail(frags))

\* The bytes of a run of access units, in order.
RECURSIVE ConcatData(_)
ConcatData(units) ==
    IF units = << >>
       THEN << >>
       ELSE Head(units).data \o ConcatData(Tail(units))

\* n >= 1 packets were read, all with non-empty payloads, and only the last
\* has the marker set.
OneAccessUnit(frags) ==
    /\ frags # << >>
    /\ \A i \in 1..Len(frags) :
          /\ IsSome(frags[i].depacketized)
          /\ frags[i].depacketized[1] # << >>
          /\ frags[i].marker = (i = Len(frags))

\* C13: starting from an empty buffer, n >= 1 fragments with non-empty
\* payloads p1..pn of which only the last has the marker set give exactly one
\* access unit, start_code+p1+...+start_code+pn, tagged with the timestamp of
\* the last fragment, and the buffer is empty afterwards.
C13_OneUnitPerMarkedRun ==
    OneAccessUnit(fragments)
       => /\ emitted = << WebRTCPacket(ExpectedBytes(fragments),
                                      fragments[Len(fragments)].timestamp) >>
          /\ frame_buf = << >>

\* Three fragments of one access unit were read and the unit of the spec's
\* example was emitted with the timestamp of the third.
C13_Witness ==
    /\ fragments = << [depacketized |-> Some(<< 5 >>), marker |-> FALSE,
                       timestamp |-> 1],
                      [depacketized |-> Some(<< 6, 7 >>), marker |-> FALSE,
                       timestamp |-> 1],
                      [depacketized |-> Some(<< 5 >>), marker |-> TRUE,
                       timestamp |-> 2] >>
    /\ emitted = << [data |-> << 0, 0, 0, 1, 5, 0, 0, 0, 1, 6, 7,
                                 0, 0, 0, 1, 5 >>,
                     timestamp |-> 2] >>
    /\ frame_buf = << >>
    /\ packet_queue = emitted

\* C14: no zero-length access unit is emitted: every emitted unit is
\* non-empty, and a marker-set fragment with an empty payload arriving on an
\* empty buffer emits nothing.
C14_NoEmptyUnit ==
    [][/\ \A i \in 1..Len(emitted') : emitted'[i].data # << >>
       /\ (/\ frame_buf = << >>
           /\ Len(fragments') = Len(fragments) + 1
           /\ fragments'[Len(fragments')].marker
           /\ fragments'[Len(fragments')].depacketized
                 \in {None, Some(<< >>)})
          => emitted' = emitted /\ raw_packet' = raw_packet
      ]_vars

\* After a complete unit, a marker-set fragment with an empty payload came
\* on the empty buffer, and nothing more was emitted.
C14_Witness ==
    /\ Len(fragments) = 2
    /\ fragments[1].marker /\ fragments[1].depacketized = Some(<< 5 >>)
    /\ fragments[2].marker /\ fragments[2].depacketized = Some(<< >>)
    /\ Len(emitted) = 1
    /\ frame_buf = << >>
    /\ dpc = "read"

\* C15: the concatenation of the emitted access units, in emission order, is
\* the concatenation of start_code+payload over the non-empty fragments
\* received up to the last flush, in arrival order.
C15_NoLossNoDuplicate ==
    /\ flushed <= Len(fragments)
    /\ ConcatData(emitted) = ExpectedBytes(SubSeq(fragments, 1, flushed))

\* Two access units were emitted, the second made of two fragments, with an
\* undecodable packet between them.
C15_Witness ==
    /\ Len(fragments) = 3 /\ flushed = 3
    /\ fragments[1].depacketized = Some(<< 6, 7 >>) /\ fragments[1].marker
    /\ fragments[2].depacketized = Some(<< 5 >>) /\ ~fragments[2].marker
    /\ fragments[3].depacketized = None /\ fragments[3].marker
    /\ Len(emitted) = 2
    /\ emitted[2].data = << 0, 0, 0, 1, 5 >>


\* What the claim C16 gives for one axis: (raw - origin)/extent when
\* 0 <= raw - origin <= extent, and -1 otherwise.
ClaimedAxis(raw, origin, extent) ==
    IF 0 <= raw - origin /\ raw - origin <= extent
       THEN Ratio(raw - origin, extent)
       ELSE MinusOne

\* A coordinate in [0,1] or equal to -1.
InUnitRangeOrMinusOne(c) ==
    \/ c = MinusOne
    \/ c.den > 0 /\ 0 <= c.num /\ c.num <= c.den

\* A coordinate equal to 0.5.
IsHalf(c) == c.den > 0 /\ 2 * c.num = c.den

\* The positions the sampler has published and that are still held.
PendingPositions ==
    {mouse_queue[i] : i \in 1..Len(mouse_queue)}
       \cup (IF IsSome(msend_position) THEN {msend_position[1]} ELSE {})
       \cup (IF IsSome(current_position) THEN {current_position[1]} ELSE {})

\* C16: for a device with width > 0 and height > 0 and every raw pointer
\* position, each axis is (raw - origin)/extent when 0 <= raw - origin <=
\* extent and -1 otherwise; every published coordinate is in [0,1] or is -1;
\* on 1920x1080 at (0,0), (960,540) gives (0.5,0.5) and (-10,540) gives
\* (-1,0.5).
C16_Normalized ==
    device.width > 0 /\ device.height > 0
       => /\ IsSome(current_position)
                => /\ current_position[1].x
                         = ClaimedAxis(ms_raw[1].x, device.x, device.width)
                   /\ current_position[1].y
                         = ClaimedAxis(ms_raw[1].y, device.y, device.height)
          /\ \A position \in PendingPositions :
                /\ InUnitRangeOrMinusOne(position.x)
                /\ InUnitRangeOrMinusOne(position.y)
          /\ (device = DefaultDevice /\ ms_raw = Some([x |-> 960, y |-> 540]))
                => /\ IsHalf(current_position[1].x)
                   /\ IsHalf(current_position[1].y)
          /\ (device = DefaultDevice
              /\ ms_raw = Some([x |-> 0 - 10, y |-> 540]))
                => /\ current_position[1].x = MinusOne
                   /\ IsHalf(current_position[1].y)

\* On the 1920x1080 device the pointer was read at (-10,540) and the position
\* (-1, 0.5) was published to the channel.
C16_Witness ==
    /\ device = DefaultDevice
    /\ ms_raw = Some([x |-> 0 - 10, y |-> 540])
    /\ mouse_queue = << MousePosition(MinusOne, Ratio(540, 1080)) >>
    /\ ms_last = "sent"

\* C17: the handoff between the mouse sampler and the control-channel sender
\* is a single-slot, latest-value mailbox: it holds at most one pending
\* cursor sample.
C17_SingleSlotMailbox == Len(mouse_queue) <= 1


\* The send worker of capture_mouse finishes with the position it dequeued.
MouseSendDone == msend_pc = "send" /\ msend_pc' # "send"

\* C18: a cursor message is sent only when a control channel handle exists
\* and its ready state is Open at the time of the check; a sample dequeued
\* when there is no handle or the channel is not open is discarded and never
\* sent later.
C18_SentOnlyWhenOpen ==
    [][/\ sent' # sent
             => /\ MouseSendDone
                /\ IsSome(mouse_channel)
                /\ ReadyStateOpen(mouse_channel[1])
       /\ (/\ MouseSendDone
           /\ ~(IsSome(mouse_channel) /\ ReadyStateOpen(mouse_channel[1])))
             => /\ sent' = sent
                /\ msend_position' = None
                /\ mouse_queue' = mouse_queue
      ]_vars

\* The one position sampled so far was dequeued and discarded, nothing was
\* sent, and nothing is left to send.
C18_Witness ==
    /\ ticks_left = MaxTicks - 1
    /\ ms_last = "sent"
    /\ mouse_queue = << >>
    /\ msend_pc = "loop"
    /\ msend_position = None
    /\ mouse_channel = None
    /\ sent = << >>

\* C19: while a session is Connected and the control channel created by its
\* client is open, the cursor samples are sent on that session's control
\* channel: a sample the send worker handles in such a state is sent on it.
C19_SamplesSentWhileOpen ==
    [][(/\ MouseSendDone
        /\ connection = "Connected"
        /\ IsSome(peer_connection)
        /\ ReadyStateOpen(peer_connection[1]))
          => sent' = Append(sent, [channel |-> peer_connection,
                                   msg |-> ToJson(msend_position[1])])
      ]_vars


\* C20: the server-side producers never block on a full queue: when the
\* encode worker or the mouse sampler offers an item to a full queue, the
\* offer is possible at once, the new item is dropped, the queue is
\* unchanged and the producer goes on.
C20_ProducersDropOnFull ==
    [][/\ (enc_pc = "send" /\ Len(queue) = SampleQueueCapacity)
             => /\ ENABLED SendSample
                /\ enc_pc' # "send" => queue' = queue /\ enc_pc' = "shutdown"
       /\ (ms_pc = "tick" /\ Len(mouse_queue) = MouseQueueCapacity)
             => /\ ENABLED MouseSample
                /\ ms_pc' # "tick" => /\ mouse_queue' = mouse_queue
                                      /\ ms_pc' \in {"loop", "done"}
      ]_vars

\* Both queues are full and both producers have just had an item dropped:
\* the third frame on the two samples queued, and a position on the 64
\* queued, of which the oldest, read at the centre, is still the first.
C20_Witness ==
    /\ queue = << Sample(1, 1), Sample(2, 1) >>
    /\ frame_count = 3
    /\ enc_pc = "shutdown"
    /\ Len(mouse_queue) = MouseQueueCapacity
    /\ mouse_queue[1] = Normalize(DefaultDevice, DefaultPointer)
    /\ mouse_queue[2] = Normalize(DefaultDevice, MovedPointer)
    /\ ms_last = "full"
    /\ ms_pc = "loop"


\* C21: the client-side producers never block on a full queue: the
\* depacketizer and the decode pipeline publish without waiting, whatever
\* the display consumer does.
C21_ClientProducersNeverWait ==
    /\ dpc = "send" => ENABLED SendPacket
    /\ vp_pc = "send" => ENABLED SendFrame

\* C30: a read failure on the inbound track ends the stream: the failing read
\* emits nothing and discards the partially filled buffer, and afterwards
\* process_video_track reads no packet and emits no access unit.
C30_ReadFailureEndsStream ==
    [][/\ (dpc = "read" /\ dpc' = "done")
             => /\ emitted' = emitted
                /\ raw_packet' = None
                /\ packet_queue' = packet_queue
                /\ frame_buf' = << >>
       /\ dpc = "done"
             => /\ dpc' = "done"
                /\ fragments' = fragments
                /\ emitted' = emitted
                /\ raw_packet' = raw_packet
                /\ frame_buf' = frame_buf
      ]_vars

\* The read failed after one fragment without marker: the task is over,
\* the fragment's bytes are gone and nothing was emitted.
C30_Witness ==
    /\ dpc = "done"
    /\ fragments = << [depacketized |-> Some(<< 5 >>), marker |-> FALSE,
                       timestamp |-> 1] >>
    /\ frame_buf = << >>
    /\ emitted = << >>
    /\ raw_packet = None


\* The position of the last valid message of a run of messages, if any.
RECURSIVE LastValid(_)
LastValid(texts) ==
    IF texts = << >>
       THEN None
       ELSE IF IsSome(FromJson(texts[Len(texts)]))
               THEN FromJson(texts[Len(texts)])
               ELSE LastValid(SubSeq(texts, 1, Len(texts) - 1))

\* C22: once all processing triggered by the control-channel messages
\* received so far has finished, the shared last-known cursor position is the
\* position of the last valid message received.
C22_LastMessageWins ==
    apply_tasks = {} => mouse_position = LastValid(messages)

\* d nanoseconds are one period of the rate, to the nanosecond: rate periods
\* make up the 1000000000 nanoseconds of a second.
IsFramePeriod(d, rate) ==
    /\ d * rate - 1000000000 < rate
    /\ 1000000000 - d * rate < rate

\* C23: every sample the encode worker emits, the first one included, has a
\* duration of one framerate period (1/framerate seconds, to the nanosecond
\* of Duration).
C23_DurationIsOnePeriod ==
    \A i \in 1..Len(enqueued) : IsFramePeriod(enqueued[i].duration, framerate)

\* The sample of the first frame and a later one were emitted.
C23_Witness ==
    /\ Len(enqueued) >= 2
    /\ enqueued[1].seq = 1
    /\ enqueued[2].seq > 1

\* C24: the k-th raw frame (k = 0, 1, ...) is stamped floor(k * 90000 /
\* framerate); the counter advances by exactly 1 per decoded raw frame,
\* whether or not a session exists or the sample is dropped, and by nothing
\* else; for a framerate of at most 90000 the stamps strictly increase.
C24_PtsFromFrameCounter ==
    [][/\ IsSome(pts')
          => /\ pts'[1] * framerate <= (frame_count' - 1) * 90000
             /\ (frame_count' - 1) * 90000 < (pts'[1] + 1) * framerate
       /\ (enc_pc = "capture" /\ enc_pc' = "encoded")
          => frame_count' = frame_count + 1
       /\ frame_count' # frame_count
          => /\ frame_count' = frame_count + 1
             /\ enc_pc = "capture"
             /\ IsSome(pts')
       /\ (frame_count' # frame_count /\ IsSome(pts) /\ framerate <= 90000)
          => pts'[1] > pts[1]]_vars

\* Three frames were stamped while no session existed and no sample was
\* ever emitted.
C24_Witness ==
    /\ frame_count = 3
    /\ IsSome(pts)
    /\ enqueued = << >>
    /\ video_track = None

\* C25: a failure on one frame does not end a pipeline: the encode worker
\* leaves its frame step only towards the next step of its loop, and the
\* client's run_video_processor leaves its frame step only towards sending
\* the frame or receiving the next access unit.
C25_FrameFailureSkipsFrame ==
    [][/\ enc_pc = "capture" => enc_pc' # "done"
       /\ vp_pc = "frames" => vp_pc' # "done"]_vars

\* The sequence p is a prefix of the sequence q.
IsPrefix(p, q) == Len(p) <= Len(q) /\ p = SubSeq(q, 1, Len(p))

C26_ShutdownIsBounded ==
    [][/\ main_pc = "serving" => (ENABLED Shutdown
                                  /\ main_pc' \in {"serving", "join"})
       /\ main_pc = "join" => /\ ENABLED TimeoutExpires
                              /\ Joined => ENABLED JoinCompletes
                              /\ main_pc' \in {"join", "returned"}
       /\ (main_pc = "join" /\ main_pc' = "returned")
          => (Joined \/ shutdown_timer' = "expired")
       /\ main_pc = "returned" => main_pc' = "returned"]_vars

\* run_cli_server has returned on the timeout: capture_mouse had returned,
\* capture_screen and the pairing service had not, and the send worker was
\* still writing a sample.
C26_Witness ==
    /\ main_pc = "returned"
    /\ shutdown_timer = "expired"
    /\ cm_pc = "returned"
    /\ cs_pc = "select"
    /\ pair_pc = "recv"
    /\ send_pc = "write"

\* C27: once the shutdown was broadcast, a task that has returned has told
\* its workers to leave their loops, or they have left them already, so
\* that every worker can still come to its end.
C27_ShutdownReachesWorkers ==
    /\ (main_pc # "serving" /\ cs_pc = "returned")
          => (shutdown_signal \/ (enc_pc = "done" /\ send_pc = "done"))
    /\ (main_pc # "serving" /\ cm_pc = "returned")
          => (mouse_shutdown_signal \/ (ms_pc = "done" /\ msend_pc = "done"))

\* C28: the teardown of a session ends that session only: once a later
\* offer was accepted, and while the transport of that session has reported
\* nothing, every frame the encode worker encodes finds the track of that
\* session in place for its sample.
C28_LaterSessionGetsSamples ==
    [][(/\ result[2] = "Ok"
        /\ Live(2)
        /\ enc_pc = "capture"
        /\ enc_pc' = "encoded")
       => video_track' = Some(2)]_vars

\* C33: with a password configured, whatever it is, the verification of an
\* offer that carries no password field ends the invocation with the
\* invalid-password rejection.
C33_AbsentPasswordRejected ==
    [][\A h \in Offers :
          (/\ hpc[h] = "verify" /\ hpc'[h] # "verify"
           /\ IsSome(password)
           /\ sdp_data[h].password = None) =>
              /\ hpc'[h] = "done"
              /\ result'[h] = "InvalidPassword"]_vars

\* C40: the verification of an offer with a wrong password can always run
\* and gives the same outcome in every Session state: the invalid-password
\* rejection, with no reply and no signaling event, and with the Session
\* state left as it was.
C40_RejectionHidesSession ==
    [][\A h \in Offers :
          (hpc[h] = "verify" /\ WrongPassword(h)) =>
              /\ ENABLED VerifyPassword(h)
              /\ hpc'[h] # "verify" =>
                    /\ result'[h] = "InvalidPassword"
                    /\ response'[h] = "none"
                    /\ events'[h] = << >>
                    /\ UNCHANGED sessionVars]_vars

\* The second offer was rejected for its password while the first one was
\* in flight and the Session state was Connecting.
C40_Witness ==
    /\ connection = "Connecting"
    /\ result[1] = "none"
    /\ result[2] = "InvalidPassword"

\* C34: whenever the Session state is Connected, peer_connection and
\* video_track hold the handles of an invocation that was answered Ok.
C34_ConnectedHoldsHandles ==
    connection = "Connected" =>
        \E h \in Offers :
            /\ result[h] = "Ok"
            /\ peer_connection = Some(h)
            /\ video_track = Some(h)

\* The offer of invocation g was accepted, its transport has reported
\* nothing, and AppState holds its session untouched.
SessionIntact(g) ==
    /\ result[g] = "Ok"
    /\ Live(g)
    /\ connection = "Connected"
    /\ peer_connection = Some(g)
    /\ video_track = Some(g)

\* C35: the callback of a terminal report of the transport of an earlier
\* session, starting while AppState holds the untouched session of a later
\* accepted offer, changes
\* neither the connection state nor peer_connection nor video_track.
C35_StaleReportIgnored ==
    [][\A h, g \in Offers :
          (/\ h # g
           /\ result[h] = "Ok"
           /\ SessionIntact(g)
           /\ cb_pc[h] = "idle" /\ cb_pc'[h] # "idle")
          => UNCHANGED sessionVars]_vars

\* C36: while the callback of a terminal report is between its reset of the
\* connection state and its last clearing, no other offer passes the check
\* of the connection state, and the handles the callback is about to clear
\* are those of its own session or are cleared already.
C36_TeardownAtomic ==
    [][\A h \in Offers :
          cb_pc[h] # "idle" =>
              /\ \A g \in Offers \ {h} :
                    hpc[g] = "check" => hpc'[g] \in {"check", "done"}
              /\ cb_pc[h] = "peer_connection"
                    => peer_connection \in {None, Some(h)}
              /\ video_track \in {None, Some(h)}]_vars

\* C37: the offer the client posts is its fully gathered local description:
\* the encoding of the description with every candidate.
C37_PostedOfferIsGathered ==
    IsSome(posted) =>
        posted[1].sdp =
            Base64Encode(ToJsonString(LocalDescription(MaxCandidates)))

\* The names of the list `names` that come before position i are not in the
\* registry, and the name at position i is.
FirstAvailable(names, i, registered) ==
    /\ names[i] \in registered
    /\ \A j \in 1..(i - 1) : names[j] \notin registered

\* The codec `chosen` follows the rule for the list `names`: with
\* acceleration it is the first name of the list the registry has, and the
\* software codec when it has none of them; without acceleration it is the
\* software codec.  The rule speaks of registries that have the software
\* codec.
FollowsRule(chosen, accelerated, names, software, registered) ==
    (chosen # "unset" /\ software \in registered) =>
        IF accelerated /\ \E i \in 1..Len(names) : names[i] \in registered
           THEN \E i \in 1..Len(names) :
                    FirstAvailable(names, i, registered) /\ chosen = names[i]
           ELSE chosen = software

NoneApplied ==
    \A i \in 1..Len(messages) :
        IsSome(FromJson(messages[i])) => i \in apply_tasks

\* While no valid message was applied the cell is empty, and so is the
\* cursor of the frame in hand and of each frame published.
NoCursorYet ==
    NoneApplied =>
        /\ mouse_position = None
        /\ IsSome(stream_frame) => stream_frame[1].mouse = None
        /\ \A i \in 1..Len(frame_queue) : frame_queue[i].mouse = None

\* C32: the frame finished by run_video_processor carries the value the
\* shared cell has at that step, it is that frame, unchanged, which is
\* published afterwards, frames carry no cursor while no valid control
\* message has been applied, and a cell that holds a position holds one
\* after every step.
C32_FrameCarriesCursor ==
    [][/\ (vp_pc = "frames" /\ vp_pc' = "send")
           => stream_frame' = Some([mouse |-> mouse_position])
       /\ (vp_pc = "send" /\ vp_pc' = "send") => stream_frame' = stream_frame
       /\ (vp_pc = "send" /\ Len(frame_queue') > Len(frame_queue))
           => frame_queue' = Append(frame_queue, stream_frame[1])
       /\ NoCursorYet /\ NoCursorYet'
       /\ IsSome(mouse_position) => IsSome(mouse_position')]_vars

\* A frame finished before any message was applied and a frame finished
\* after the first position was applied have been published, and the cell
\* holds a later position by now.
C32_Witness ==
    /\ Len(frame_queue) = 2
    /\ frame_queue[1].mouse = None
    /\ IsSome(frame_queue[2].mouse)
    /\ IsSome(mouse_position)
    /\ mouse_position # frame_queue[2].mouse

\* C38: every sample written went to the track of the session that was
\* current when the sample was enqueued.
C38_WrittenToOwnSession ==
    \A i \in 1..Len(written) : written[i].track = written[i].sample.session

\* C39: when a producer worker has ended without a shutdown signal and
\* its queue is empty, the recv of the paired send worker, which yields
\* None, ends that worker.
C39_SendWorkerEndsOnClosedQueue ==
    [][/\ (/\ enc_pc = "done" /\ ~shutdown_signal /\ queue = << >>
           /\ send_pc = "recv" /\ send_pc' # "recv") => send_pc' = "done"
       /\ (/\ ms_pc = "done" /\ ~mouse_shutdown_signal
           /\ mouse_queue = << >>
           /\ msend_pc = "recv" /\ msend_pc' # "recv")
              => msend_pc' = "done"]_vars

====
